---- MODULE Spec2Model ----
(***************************************************************************)
(* Model of the publication-style-config-server content processor          *)
(* (services/template_processor.py), of the request handler that calls it  *)
(* (app.py), of the export coordinator (services/export_coordinator.py)    *)
(* and of the style manager (services/style_manager.py).                   *)
(*                                                                         *)
(* Text is modelled at character level: a Python str is a sequence of      *)
(* one-character strings, so that strip, lower, split, replace and the     *)
(* regular expressions are computed character by character.  A Python      *)
(* dict is an insertion-ordered sequence of [k, v] records with distinct   *)
(* keys; a Python list is a sequence.                                      *)
(***************************************************************************)
EXTENDS Integers, Sequences, FiniteSets, TLC

VARIABLES
    templates,      \* self.templates, the template registry
    pc,             \* "idle", or how the last call ended
    content,        \* argument content of the call in progress
    style_name,     \* argument style_name
    template_type,  \* argument template_type
    sections,       \* local `sections` of process_content (the segmented map)
    result,         \* the dictionary process_content returned
    error,          \* the exception process_content raised
    response,       \* the HTTP response of process_template
    header_text,    \* argument of a direct _normalize_section_name call
    section_name,   \* what that call returned
    held,           \* the descriptors get_template returned, as callers hold them
    coordination_history,   \* ExportCoordinator.coordination_history
    generated_ids,  \* how many coordination ids uuid4() has handed out
    export_config,  \* argument export_config of coordinate_export
    history_limit,  \* argument limit of get_coordination_history
    styles_directory,   \* the .json files of StyleManager.styles_directory
    style_call      \* the arguments of the call of the style manager

\* The state of the export coordinator and the arguments of its calls.
coordinator ==
    <<coordination_history, generated_ids, export_config, history_limit>>

\* The state of the style manager and the arguments of its calls.
manager == <<styles_directory, style_call>>

vars == <<templates, pc, content, style_name, template_type, sections,
          result, error, response, header_text, section_name, held,
          coordinator, manager>>

\* Python's None, and a value that is present: an optional value is a
\* sequence of length 0 or 1.
None == <<>>

Some(x) == <<x>>

(***************************************************************************)
(* String literals of the source, as character sequences.                  *)
(***************************************************************************)
s_title == <<"t", "i", "t", "l", "e">>
s_authors == <<"a", "u", "t", "h", "o", "r", "s">>
s_abstract == <<"a", "b", "s", "t", "r", "a", "c", "t">>
s_keywords == <<"k", "e", "y", "w", "o", "r", "d", "s">>
s_introduction == <<"i", "n", "t", "r", "o", "d", "u", "c", "t", "i", "o", "n">>
s_methodology == <<"m", "e", "t", "h", "o", "d", "o", "l", "o", "g", "y">>
s_results == <<"r", "e", "s", "u", "l", "t", "s">>
s_discussion == <<"d", "i", "s", "c", "u", "s", "s", "i", "o", "n">>
s_conclusion == <<"c", "o", "n", "c", "l", "u", "s", "i", "o", "n">>
s_references == <<"r", "e", "f", "e", "r", "e", "n", "c", "e", "s">>
s_approach == <<"a", "p", "p", "r", "o", "a", "c", "h">>
s_experiments == <<"e", "x", "p", "e", "r", "i", "m", "e", "n", "t", "s">>
s_executive_summary == <<"e", "x", "e", "c", "u", "t", "i", "v", "e", "_", "s", "u", "m", "m", "a", "r", "y">>
s_background == <<"b", "a", "c", "k", "g", "r", "o", "u", "n", "d">>
s_analysis == <<"a", "n", "a", "l", "y", "s", "i", "s">>
s_findings == <<"f", "i", "n", "d", "i", "n", "g", "s">>
s_recommendations == <<"r", "e", "c", "o", "m", "m", "e", "n", "d", "a", "t", "i", "o", "n", "s">>
s_appendices == <<"a", "p", "p", "e", "n", "d", "i", "c", "e", "s">>
s_title_page == <<"t", "i", "t", "l", "e", "_", "p", "a", "g", "e">>
s_acknowledgments == <<"a", "c", "k", "n", "o", "w", "l", "e", "d", "g", "m", "e", "n", "t", "s">>
s_table_of_contents == <<"t", "a", "b", "l", "e", "_", "o", "f", "_", "c", "o", "n", "t", "e", "n", "t", "s">>
s_literature_review == <<"l", "i", "t", "e", "r", "a", "t", "u", "r", "e", "_", "r", "e", "v", "i", "e", "w">>
s_literature_SP_review == <<"l", "i", "t", "e", "r", "a", "t", "u", "r", "e", " ", "r", "e", "v", "i", "e", "w">>
s_methods == <<"m", "e", "t", "h", "o", "d", "s">>
s_experimental_SP_setup == <<"e", "x", "p", "e", "r", "i", "m", "e", "n", "t", "a", "l", " ", "s", "e", "t", "u", "p">>
s_conclusions == <<"c", "o", "n", "c", "l", "u", "s", "i", "o", "n", "s">>
s_bibliography == <<"b", "i", "b", "l", "i", "o", "g", "r", "a", "p", "h", "y">>
s_acknowledgements == <<"a", "c", "k", "n", "o", "w", "l", "e", "d", "g", "e", "m", "e", "n", "t", "s">>
s_appendix == <<"a", "p", "p", "e", "n", "d", "i", "x">>

(***************************************************************************)
(* Python built-ins used by the source.                                    *)
(***************************************************************************)
\* The characters str.strip(), str.split() and the regex class \s treat as
\* whitespace.
Whitespace == {" ", "\t", "\n", "\r"}

UpperCase == <<"A", "B", "C", "D", "E", "F", "G", "H", "I", "J", "K", "L", "M",
               "N", "O", "P", "Q", "R", "S", "T", "U", "V", "W", "X", "Y", "Z">>

LowerCase == <<"a", "b", "c", "d", "e", "f", "g", "h", "i", "j", "k", "l", "m",
               "n", "o", "p", "q", "r", "s", "t", "u", "v", "w", "x", "y", "z">>

\* The regex class [A-Za-z].
Letters == {UpperCase[i] : i \in 1..26} \cup {LowerCase[i] : i \in 1..26}

\* The regex class \d, with the value int() gives each digit.
Digits == <<"0", "1", "2", "3", "4", "5", "6", "7", "8", "9">>

IsDigit(c) == \E i \in 1..10 : Digits[i] = c

DigitValue(c) == (CHOOSE i \in 1..10 : Digits[i] = c) - 1

Min(S) == CHOOSE x \in S : \A y \in S : x <= y

Max(S) == CHOOSE x \in S : \A y \in S : x >= y

\* str.lower() of one character.
LowerChar(c) ==
    IF \E i \in 1..26 : UpperCase[i] = c
    THEN LowerCase[CHOOSE i \in 1..26 : UpperCase[i] = c]
    ELSE c

\* str.lower()
Lower(s) == [i \in 1..Len(s) |-> LowerChar(s[i])]

\* Index of the first character at or after i that is not in cs (Len(s)+1 if none).
RECURSIVE SkipForward(_, _, _)
SkipForward(s, i, cs) ==
    IF i > Len(s) \/ s[i] \notin cs THEN i ELSE SkipForward(s, i + 1, cs)

\* Index of the last character at or before i that is not in cs (0 if none).
RECURSIVE SkipBackward(_, _, _)
SkipBackward(s, i, cs) ==
    IF i < 1 \/ s[i] \notin cs THEN i ELSE SkipBackward(s, i - 1, cs)

\* str.lstrip(chars)
LStrip(s, cs) == SubSeq(s, SkipForward(s, 1, cs), Len(s))

\* str.strip(): leading and trailing whitespace removed.
Strip(s) ==
    LET first == SkipForward(s, 1, Whitespace)
        last  == SkipBackward(s, Len(s), Whitespace)
    IN  IF first > last THEN <<>> ELSE SubSeq(s, first, last)

\* str.startswith(c) for a one-character prefix.
StartsWith(s, c) == Len(s) >= 1 /\ s[1] = c

\* str.replace(old, new) for one-character old and new.
Replace(s, old, new) == [i \in 1..Len(s) |-> IF s[i] = old THEN new ELSE s[i]]

\* str.split(sep) for a one-character separator: the pieces between the
\* separators, empty pieces included.
RECURSIVE SplitFrom(_, _, _)
SplitFrom(s, from, sep) ==
    LET seps == {i \in from..Len(s) : s[i] = sep}
    IN  IF seps = {}
        THEN <<SubSeq(s, from, Len(s))>>
        ELSE <<SubSeq(s, from, Min(seps) - 1)>> \o SplitFrom(s, Min(seps) + 1, sep)

Split(s, sep) == SplitFrom(s, 1, sep)

\* sep.join(parts) for a one-character separator.
RECURSIVE Join(_, _)
Join(parts, sep) ==
    IF parts = <<>> THEN <<>>
    ELSE IF Len(parts) = 1 THEN parts[1]
    ELSE parts[1] \o <<sep>> \o Join(Tail(parts), sep)

\* len(s.split()): the number of maximal runs of non-whitespace characters.
WordCount(s) ==
    Cardinality({i \in 1..Len(s) :
        /\ s[i] \notin Whitespace
        /\ (i = 1 \/ s[i - 1] \in Whitespace)})

\* int(s) of a string of decimal digits.
RECURSIVE ParseInt(_)
ParseInt(s) ==
    IF s = <<>> THEN 0
    ELSE 10 * ParseInt(SubSeq(s, 1, Len(s) - 1)) + DigitValue(s[Len(s)])

\* dict: key in d, d.keys(), d.get(key, default), d[key] = value.
Keys(d) == {d[i].k : i \in 1..Len(d)}

KeyList(d) == [i \in 1..Len(d) |-> d[i].k]

DictGet(d, key, default) ==
    IF key \in Keys(d)
    THEN d[CHOOSE i \in 1..Len(d) : d[i].k = key].v
    ELSE default

DictSet(d, key, value) ==
    IF key \in Keys(d)
    THEN [d EXCEPT ![CHOOSE i \in 1..Len(d) : d[i].k = key].v = value]
    ELSE Append(d, [k |-> key, v |-> value])

\* x in list
InList(x, list) == \E i \in 1..Len(list) : list[i] = x

(***************************************************************************)
(* TemplateProcessor._initialize_templates                                 *)
(***************************************************************************)
InitialTemplates ==
    [article |->
        [name |-> "Research Article",
         sections |-> <<s_title, s_authors, s_abstract, s_keywords,
                        s_introduction, s_methodology, s_results,
                        s_discussion, s_conclusion, s_references>>,
         required_sections |-> <<s_title, s_authors, s_abstract>>,
         section_order |-> TRUE,
         max_abstract_words |-> 250,
         reference_format |-> "numeric"],
     conference_paper |->
        [name |-> "Conference Paper",
         sections |-> <<s_title, s_authors, s_abstract, s_keywords,
                        s_introduction, s_approach, s_experiments,
                        s_results, s_conclusion, s_references>>,
         required_sections |-> <<s_title, s_authors, s_abstract>>,
         section_order |-> TRUE,
         max_abstract_words |-> 150,
         reference_format |-> "numeric"],
     technical_report |->
        [name |-> "Technical Report",
         sections |-> <<s_title, s_authors, s_executive_summary,
                        s_introduction, s_background, s_analysis,
                        s_findings, s_recommendations, s_appendices>>,
         required_sections |-> <<s_title, s_authors, s_executive_summary>>,
         section_order |-> FALSE,
         max_abstract_words |-> 500,
         reference_format |-> "author_year"],
     thesis |->
        [name |-> "Thesis/Dissertation",
         sections |-> <<s_title_page, s_abstract, s_acknowledgments,
                        s_table_of_contents, s_introduction, s_literature_review,
                        s_methodology, s_results, s_discussion,
                        s_conclusion, s_references, s_appendices>>,
         required_sections |-> <<s_title_page, s_abstract, s_introduction>>,
         section_order |-> TRUE,
         max_abstract_words |-> 350,
         reference_format |-> "author_year"]]

(***************************************************************************)
(* TemplateProcessor._normalize_section_name                               *)
(***************************************************************************)
normalization_map ==
    << [k |-> s_abstract,              v |-> s_abstract],
       [k |-> s_introduction,          v |-> s_introduction],
       [k |-> s_background,            v |-> s_background],
       [k |-> s_literature_SP_review,  v |-> s_literature_review],
       [k |-> s_methodology,           v |-> s_methodology],
       [k |-> s_methods,               v |-> s_methodology],
       [k |-> s_approach,              v |-> s_approach],
       [k |-> s_experiments,           v |-> s_experiments],
       [k |-> s_experimental_SP_setup, v |-> s_experiments],
       [k |-> s_results,               v |-> s_results],
       [k |-> s_findings,              v |-> s_findings],
       [k |-> s_discussion,            v |-> s_discussion],
       [k |-> s_analysis,              v |-> s_analysis],
       [k |-> s_conclusion,            v |-> s_conclusion],
       [k |-> s_conclusions,           v |-> s_conclusion],
       [k |-> s_references,            v |-> s_references],
       [k |-> s_bibliography,          v |-> s_references],
       [k |-> s_acknowledgments,       v |-> s_acknowledgments],
       [k |-> s_acknowledgements,      v |-> s_acknowledgments],
       [k |-> s_appendix,              v |-> s_appendices],
       [k |-> s_appendices,            v |-> s_appendices] >>

\* NormalizeSectionName with the arguments of replace() exchanged.
NormalizeSectionNameSwapped(text) ==
    DictGet(normalization_map, text, Replace(text, "_", " "))

NormalizeSectionName(text) ==
    DictGet(normalization_map, text, Replace(text, " ", "_"))

(***************************************************************************)
(* TemplateProcessor._parse_content_sections                               *)
(***************************************************************************)
\* SaveSection without the test of current_content: a section with no body
\* is saved too.
SaveSectionAlways(st) ==
    DictSet(st.sections, st.current_section,
            Strip(Join(st.current_content, "\n")))

\* SaveSection that keeps the body a name already has.
SaveSectionKeepingFirst(st) ==
    IF st.current_content # <<>> /\ st.current_section \notin Keys(st.sections)
    THEN DictSet(st.sections, st.current_section,
                 Strip(Join(st.current_content, "\n")))
    ELSE st.sections

\* st holds the locals sections, current_section and current_content.
\* "Save previous section" (lines 172-173) and "Save last section" (lines
\* 184-185): the value of sections afterwards.
SaveSection(st) ==
    IF st.current_content # <<>>
    THEN DictSet(st.sections, st.current_section,
                 Strip(Join(st.current_content, "\n")))
    ELSE st.sections

\* ParseStrippedLine without lower(): the header text keeps its case.
ParseStrippedLineCaseSensitive(st, line) ==
    IF StartsWith(line, "#")
    THEN [sections |-> SaveSection(st),
          current_section |->
             NormalizeSectionName(Strip(LStrip(line, {"#"}))),
          current_content |-> <<>>]
    ELSE IF line # <<>>
         THEN [st EXCEPT !.current_content = Append(@, line)]
         ELSE st

\* One iteration of the loop over the lines (lines 166-181), line being
\* the stripped line.
ParseStrippedLine(st, line) ==
    IF StartsWith(line, "#")
    THEN [sections |-> SaveSection(st),
          current_section |->
             NormalizeSectionName(Lower(Strip(LStrip(line, {"#"})))),
          current_content |-> <<>>]
    ELSE IF line # <<>>
         THEN [st EXCEPT !.current_content = Append(@, line)]
         ELSE st

\* ParseLine without the strip() of the line.
ParseLineUnstripped(st, raw_line) == ParseStrippedLine(st, raw_line)

ParseLine(st, raw_line) == ParseStrippedLine(st, Strip(raw_line))

RECURSIVE ParseLines(_, _, _)
ParseLines(st, lines, i) ==
    IF i > Len(lines) THEN st
    ELSE ParseLines(ParseLine(st, lines[i]), lines, i + 1)

\* ParseContentSections without "Save last section" (lines 184-185).
ParseContentSectionsWithoutLast(text) ==
    ParseLines([sections |-> <<>>,
                current_section |-> s_introduction,
                current_content |-> <<>>],
               Split(text, "\n"), 1).sections

ParseContentSections(text) ==
    SaveSection(ParseLines([sections |-> <<>>,
                            current_section |-> s_introduction,
                            current_content |-> <<>>],
                           Split(text, "\n"), 1))

(***************************************************************************)
(* TemplateProcessor._validate_sections                                    *)
(* A message built by an f-string is the tuple of its parts.               *)
(***************************************************************************)
\* MissingRequired with the loop left at the first missing section.
MissingRequiredFirstOnly(secs, template_config) ==
    LET Missing(required) == required \notin Keys(secs)
        missing == SelectSeq(template_config.required_sections, Missing)
    IN  IF missing = <<>> THEN <<>> ELSE <<missing[1]>>

\* Lines 231-236: the required sections that are not in the map.
MissingRequired(secs, template_config) ==
    LET Missing(required) == required \notin Keys(secs)
    IN  SelectSeq(template_config.required_sections, Missing)

\* UnexpectedSections with the map compared with required_sections.
UnexpectedSectionsNotRequired(secs, template_config) ==
    LET Unexpected(section) == ~InList(section, template_config.required_sections)
    IN  SelectSeq(KeyList(secs), Unexpected)

\* Lines 238-242: the sections of the map the template does not declare.
UnexpectedSections(secs, template_config) ==
    LET Unexpected(section) == ~InList(section, template_config.sections)
    IN  SelectSeq(KeyList(secs), Unexpected)

\* AbstractWarnings with the ceiling itself counted as an overage.
AbstractWarningsAtCeiling(secs, template_config) ==
    IF /\ s_abstract \in Keys(secs)
       /\ WordCount(DictGet(secs, s_abstract, <<>>)) >= template_config.max_abstract_words
    THEN << <<"Abstract exceeds maximum word count: ",
              WordCount(DictGet(secs, s_abstract, <<>>)), "/",
              template_config.max_abstract_words>> >>
    ELSE <<>>

\* Lines 244-251: the warnings of the abstract word count.
AbstractWarnings(secs, template_config) ==
    IF /\ s_abstract \in Keys(secs)
       /\ WordCount(DictGet(secs, s_abstract, <<>>)) > template_config.max_abstract_words
    THEN << <<"Abstract exceeds maximum word count: ",
              WordCount(DictGet(secs, s_abstract, <<>>)), "/",
              template_config.max_abstract_words>> >>
    ELSE <<>>

\* Lines 220-253, given the names the two loops collect.
ValidationResult(missing, unexpected, abstract_warnings) ==
    [valid |-> missing = <<>>,
     errors |-> [i \in 1..Len(missing) |->
                    <<"Missing required section: ", missing[i]>>],
     warnings |->
        [i \in 1..Len(unexpected) |-> <<"Unexpected section: ", unexpected[i]>>]
        \o abstract_warnings,
     missing_required |-> missing,
     unexpected_sections |-> unexpected]

\* ValidateSections that reads the section_order flag: declared sections
\* out of the declared order are an error.
ValidateSectionsEnforcingOrder(secs, template_config) ==
    LET Declared(section) == InList(section, template_config.sections)
        declared == SelectSeq(KeyList(secs), Declared)
        Place(section) == CHOOSE i \in 1..Len(template_config.sections) :
                                template_config.sections[i] = section
        base == ValidationResult(MissingRequired(secs, template_config),
                                 UnexpectedSections(secs, template_config),
                                 AbstractWarnings(secs, template_config))
    IN  IF /\ template_config.section_order
           /\ \E i \in 1..Len(declared), j \in 1..Len(declared) :
                    i < j /\ Place(declared[i]) > Place(declared[j])
        THEN [base EXCEPT !.valid = FALSE,
                          !.errors = Append(@, <<"Sections out of order">>)]
        ELSE base

ValidateSections(secs, template_config) ==
    ValidationResult(MissingRequired(secs, template_config),
                     UnexpectedSections(secs, template_config),
                     AbstractWarnings(secs, template_config))

(***************************************************************************)
(* The regular expressions of _initialize_formatting_rules and of          *)
(* _apply_text_formatting.  MatchEnd(pattern, s, i) is the index of the    *)
(* last character of the match of the pattern that starts at index i of    *)
(* s, or 0 when the pattern does not match there.                          *)
(***************************************************************************)
\* Index of the first occurrence of c at or after i (Len(s)+1 if none).
RECURSIVE FindChar(_, _, _)
FindChar(s, i, c) ==
    IF i > Len(s) \/ s[i] = c THEN i ELSE FindChar(s, i + 1, c)

\* Index after the run of decimal digits that starts at i.
RECURSIVE SkipDigits(_, _)
SkipDigits(s, i) ==
    IF i > Len(s) \/ ~IsDigit(s[i]) THEN i ELSE SkipDigits(s, i + 1)

\* s has the literal lit at index i.
HasLiteral(s, i, lit) ==
    /\ i >= 1
    /\ i + Len(lit) - 1 <= Len(s)
    /\ \A j \in 1..Len(lit) : s[i + j - 1] = lit[j]

\* c{n}([^c]+)c{n}: the emphasis and equation patterns.
MatchDelimited(s, i, c, n) ==
    LET close == FindChar(s, i + n, c)
    IN  IF /\ HasLiteral(s, i, [j \in 1..n |-> c])
           /\ close > i + n
           /\ HasLiteral(s, close, [j \in 1..n |-> c])
        THEN close + n - 1
        ELSE 0

\* The rest of \[(\d+(?:,\s*\d+)*)\] once a run of digits has ended at p - 1.
RECURSIVE MatchNumericTail(_, _)
MatchNumericTail(s, p) ==
    IF p > Len(s) THEN 0
    ELSE IF s[p] = "]" THEN p
    ELSE IF s[p] = ","
         THEN LET q == SkipForward(s, p + 1, Whitespace)
                  e == SkipDigits(s, q)
              IN  IF e > q THEN MatchNumericTail(s, e) ELSE 0
    ELSE 0

\* \[(\d+(?:,\s*\d+)*)\]
MatchNumeric(s, i) ==
    IF HasLiteral(s, i, <<"[">>) /\ SkipDigits(s, i + 1) > i + 1
    THEN MatchNumericTail(s, SkipDigits(s, i + 1))
    ELSE 0

\* Index after ([A-Za-z]+(?:\s+et\s+al\.)?) when the group starts at i, or 0.
AuthorEnd(s, i) ==
    LET a  == SkipForward(s, i, Letters)
        w  == SkipForward(s, a, Whitespace)
        w2 == SkipForward(s, w + 2, Whitespace)
    IN  IF a = i THEN 0
        ELSE IF /\ w > a
                /\ HasLiteral(s, w, <<"e", "t">>)
                /\ w2 > w + 2
                /\ HasLiteral(s, w2, <<"a", "l", ".">>)
             THEN w2 + 3
             ELSE a

\* Index where (\d{4}) starts in ,?\s+(\d{4})\) when ,? starts at g, or 0.
YearStart(s, g) ==
    LET c == IF HasLiteral(s, g, <<",">>) THEN g + 1 ELSE g
        y == SkipForward(s, c, Whitespace)
    IN  IF /\ y > c
           /\ y + 4 <= Len(s)
           /\ \A j \in y..(y + 3) : IsDigit(s[j])
           /\ s[y + 4] = ")"
        THEN y
        ELSE 0

\* \(([A-Za-z]+(?:\s+et\s+al\.)?),?\s+(\d{4})\)
MatchAuthorYear(s, i) ==
    IF HasLiteral(s, i, <<"(">>) /\ AuthorEnd(s, i + 1) # 0
       /\ YearStart(s, AuthorEnd(s, i + 1)) # 0
    THEN YearStart(s, AuthorEnd(s, i + 1)) + 4
    ELSE 0

\* keyword\s+(\d+): the figure and table reference patterns.
MatchKeyword(s, i, keyword) ==
    LET w == SkipForward(s, i + Len(keyword), Whitespace)
        e == SkipDigits(s, w)
    IN  IF HasLiteral(s, i, keyword) /\ w > i + Len(keyword) /\ e > w
        THEN e - 1
        ELSE 0

s_Figure == <<"F", "i", "g", "u", "r", "e">>

s_Table == <<"T", "a", "b", "l", "e">>

MatchEnd(pattern, s, i) ==
    CASE pattern = "bold"        -> MatchDelimited(s, i, "*", 2)
      [] pattern = "italic"      -> MatchDelimited(s, i, "*", 1)
      [] pattern = "underline"   -> MatchDelimited(s, i, "_", 1)
      [] pattern = "numeric"     -> MatchNumeric(s, i)
      [] pattern = "author_year" -> MatchAuthorYear(s, i)
      [] pattern = "inline"      -> MatchDelimited(s, i, "$", 1)
      [] pattern = "display"     -> MatchDelimited(s, i, "$", 2)
      [] pattern = "figure_ref"  -> MatchKeyword(s, i, s_Figure)
      [] pattern = "table_ref"   -> MatchKeyword(s, i, s_Table)

\* re.finditer(pattern, s): the matches from left to right, each search
\* resuming where the previous match ended; a match is [first, last].
\* Index of the leftmost match at or after from, or 0.
MinOrZero(S) == IF S = {} THEN 0 ELSE Min(S)

\* The character every match of the pattern starts with.
FirstChar(pattern) ==
    CASE pattern \in {"bold", "italic"}      -> "*"
      [] pattern = "underline"               -> "_"
      [] pattern = "numeric"                 -> "["
      [] pattern = "author_year"             -> "("
      [] pattern \in {"inline", "display"}   -> "$"
      [] pattern = "figure_ref"              -> "F"
      [] pattern = "table_ref"               -> "T"

SearchAt(pattern, s, from, c) ==
    MinOrZero({i \in from..Len(s) : s[i] = c /\ MatchEnd(pattern, s, i) # 0})

Search(pattern, s, from) == SearchAt(pattern, s, from, FirstChar(pattern))

RECURSIVE FindIterFrom(_, _, _)
MatchesFrom(pattern, s, first, last) ==
    <<[first |-> first, last |-> last]>> \o FindIterFrom(pattern, s, last + 1)

MatchesAt(pattern, s, first) ==
    IF first = 0 THEN <<>>
    ELSE MatchesFrom(pattern, s, first, MatchEnd(pattern, s, first))

FindIterFrom(pattern, s, from) == MatchesAt(pattern, s, Search(pattern, s, from))

FindIter(pattern, s) == FindIterFrom(pattern, s, 1)

\* match.group(0) and match.span()
MatchText(s, m) == SubSeq(s, m.first, m.last)

\* MatchSpan with the start counted from 1.
MatchSpanOneBased(m) == <<m.first, m.last>>

MatchSpan(m) == <<m.first - 1, m.last>>

\* re.sub(pattern, repl, s) where repl is  open \1 close  and group 1 lies
\* n characters inside the match at both ends.
RECURSIVE SubFrom(_, _, _, _, _, _)
SubFrom(s, matches, k, from, delim, n) ==
    IF k > Len(matches) THEN SubSeq(s, from, Len(s))
    ELSE SubSeq(s, from, matches[k].first - 1)
         \o delim
         \o SubSeq(s, matches[k].first + n, matches[k].last - n)
         \o delim
         \o SubFrom(s, matches, k + 1, matches[k].last + 1, delim, n)

ReSub(pattern, delim, s) ==
    SubFrom(s, FindIter(pattern, s), 1, 1, delim, Len(delim))

(***************************************************************************)
(* TemplateProcessor._apply_text_formatting                                *)
(***************************************************************************)
ApplyTextFormatting(text) ==
    ReSub("underline", <<"_">>,
        ReSub("italic", <<"*">>,
            ReSub("bold", <<"*", "*">>, text)))

(***************************************************************************)
(* TemplateProcessor._extract_citations                                    *)
(***************************************************************************)
\* [int(n.strip()) for n in match.group(1).split(',')]
CitationNumbers(group1) ==
    LET parts == Split(group1, ",")
    IN  [j \in 1..Len(parts) |-> ParseInt(Strip(parts[j]))]

NumericCitation(s, m) ==
    [type |-> "numeric",
     text |-> MatchText(s, m),
     numbers |-> CitationNumbers(SubSeq(s, m.first + 1, m.last - 1)),
     position |-> MatchSpan(m)]

AuthorYearCitation(s, m) ==
    [type |-> "author_year",
     text |-> MatchText(s, m),
     author |-> SubSeq(s, m.first + 1, AuthorEnd(s, m.first + 1) - 1),
     year |-> ParseInt(SubSeq(s, m.last - 4, m.last - 1)),
     position |-> MatchSpan(m)]

NumericCitations(s, numeric_matches) ==
    [j \in 1..Len(numeric_matches) |-> NumericCitation(s, numeric_matches[j])]

AuthorYearCitations(s, author_year_matches) ==
    [j \in 1..Len(author_year_matches) |->
        AuthorYearCitation(s, author_year_matches[j])]

\* ExtractCitations without the loop over the author and year matches.
ExtractCitationsNumericOnly(s) == NumericCitations(s, FindIter("numeric", s))

ExtractCitations(s) ==
    NumericCitations(s, FindIter("numeric", s))
    \o AuthorYearCitations(s, FindIter("author_year", s))

(***************************************************************************)
(* TemplateProcessor._extract_equations                                    *)
(***************************************************************************)
Equation(s, m, type, n, j) ==
    [type |-> type,
     content |-> SubSeq(s, m.first + n, m.last - n),
     position |-> MatchSpan(m),
     id |-> <<"eq_", type, "_", j>>]

\* Equations with the ids counted from 0, as enumerate() counts.
EquationsZeroBased(s, matches, type, n) ==
    [j \in 1..Len(matches) |-> Equation(s, matches[j], type, n, j - 1)]

Equations(s, matches, type, n) ==
    [j \in 1..Len(matches) |-> Equation(s, matches[j], type, n, j)]

ExtractEquations(s) ==
    Equations(s, FindIter("inline", s), "inline", 1)
    \o Equations(s, FindIter("display", s), "display", 2)

(***************************************************************************)
(* TemplateProcessor._extract_references                                   *)
(***************************************************************************)
Reference(s, m, type, keyword) ==
    [type |-> type,
     number |-> ParseInt(SubSeq(s, SkipForward(s, m.first + Len(keyword), Whitespace),
                                m.last)),
     text |-> MatchText(s, m),
     position |-> MatchSpan(m)]

References(s, matches, type, keyword) ==
    [j \in 1..Len(matches) |-> Reference(s, matches[j], type, keyword)]

ExtractReferences(s) ==
    References(s, FindIter("figure_ref", s), "figure", s_Figure)
    \o References(s, FindIter("table_ref", s), "table", s_Table)

(***************************************************************************)
(* TemplateProcessor._apply_formatting                                     *)
(***************************************************************************)
\* Lines 266-282: the entry built from the formatted content.
AnnotateSection(formatted_content) ==
    [content |-> formatted_content,
     word_count |-> WordCount(formatted_content),
     citations |-> ExtractCitations(formatted_content),
     equations |-> ExtractEquations(formatted_content),
     references |-> ExtractReferences(formatted_content),
     formatting_applied |-> TRUE]

\* Lines 261-282: one iteration of the loop over the sections.
FormatSection(text) == AnnotateSection(ApplyTextFormatting(text))

\* ApplyFormatting that marks a section as formatted for one style only.
ApplyFormattingForStyle(secs, style) ==
    [i \in 1..Len(secs) |->
        [k |-> secs[i].k,
         v |-> [FormatSection(secs[i].v) EXCEPT !.formatting_applied = (style = "ieee")]]]

ApplyFormatting(secs, style) ==
    [i \in 1..Len(secs) |-> [k |-> secs[i].k, v |-> FormatSection(secs[i].v)]]

(***************************************************************************)
(* TemplateProcessor._generate_table_of_contents                           *)
(***************************************************************************)
\* str.title(): a letter that follows a letter is lower-cased, any other
\* letter is upper-cased.
UpperChar(c) ==
    IF \E i \in 1..26 : LowerCase[i] = c
    THEN UpperCase[CHOOSE i \in 1..26 : LowerCase[i] = c]
    ELSE c

Title(s) ==
    [i \in 1..Len(s) |->
        IF i > 1 /\ s[i - 1] \in Letters THEN LowerChar(s[i]) ELSE UpperChar(s[i])]

\* TocEntry with the page counted from 0, as enumerate() counts.
TocEntryZeroBased(formatted, section_order, i) ==
    [section |-> section_order[i],
     title |-> Title(Replace(section_order[i], "_", " ")),
     page |-> i - 1,
     word_count |-> DictGet(formatted, section_order[i], None).word_count]

TocEntry(formatted, section_order, i) ==
    [section |-> section_order[i],
     title |-> Title(Replace(section_order[i], "_", " ")),
     page |-> i,
     word_count |-> DictGet(formatted, section_order[i], None).word_count]

RECURSIVE TocFrom(_, _, _)
TocFrom(formatted, section_order, i) ==
    IF i > Len(section_order) THEN <<>>
    ELSE (IF section_order[i] \in Keys(formatted)
          THEN <<TocEntry(formatted, section_order, i)>>
          ELSE <<>>)
         \o TocFrom(formatted, section_order, i + 1)

\* GenerateTableOfContents with the loop over the sections of the document.
TableOfContentsInDocumentOrder(formatted, template_config) ==
    LET Declared(entry) == InList(entry.k, template_config.sections)
        present == SelectSeq(formatted, Declared)
    IN  [j \in 1..Len(present) |->
            TocEntry(formatted, template_config.sections,
                     CHOOSE i \in 1..Len(template_config.sections) :
                        template_config.sections[i] = present[j].k)]

GenerateTableOfContents(formatted, template_config) ==
    TocFrom(formatted, template_config.sections, 1)

(***************************************************************************)
(* TemplateProcessor._process_citations                                    *)
(***************************************************************************)
\* str(n) for n >= 0.
RECURSIVE IntToStr(_)
IntToStr(n) ==
    IF n < 10 THEN <<Digits[n + 1]>>
    ELSE IntToStr(n \div 10) \o <<Digits[(n % 10) + 1]>>

\* all_citations.extend(section_data['citations']) over sections.values()
RECURSIVE AllCitationsFrom(_, _)
AllCitationsFrom(formatted, i) ==
    IF i > Len(formatted) THEN <<>>
    ELSE formatted[i].v.citations \o AllCitationsFrom(formatted, i + 1)

\* Keys of unique_citations are ints and strs; an int never equals a str.
SameKey(a, b) == a.kind = b.kind /\ a.key = b.key

\* UniquePut keeping the first citation stored under a key.
UniquePutFirstWins(unique, key, citation) ==
    IF \E i \in 1..Len(unique) : SameKey(unique[i].k, key)
    THEN unique
    ELSE Append(unique, [k |-> key, v |-> citation])

UniquePut(unique, key, citation) ==
    IF \E i \in 1..Len(unique) : SameKey(unique[i].k, key)
    THEN [unique EXCEPT
            ![CHOOSE i \in 1..Len(unique) : SameKey(unique[i].k, key)].v = citation]
    ELSE Append(unique, [k |-> key, v |-> citation])

RECURSIVE UniquePutNumbers(_, _, _)
UniquePutNumbers(unique, citation, j) ==
    IF j > Len(citation.numbers) THEN unique
    ELSE UniquePutNumbers(
            UniquePut(unique, [kind |-> "int", key |-> citation.numbers[j]], citation),
            citation, j + 1)

\* UniqueStep with the key of an author and year citation built from the
\* author alone.
UniqueStepAuthorOnly(unique, citation) ==
    IF citation.type = "numeric"
    THEN UniquePutNumbers(unique, citation, 1)
    ELSE IF citation.type = "author_year"
         THEN UniquePut(unique, [kind |-> "str", key |-> citation.author], citation)
         ELSE unique

UniqueStep(unique, citation) ==
    IF citation.type = "numeric"
    THEN UniquePutNumbers(unique, citation, 1)
    ELSE IF citation.type = "author_year"
         THEN UniquePut(unique,
                        [kind |-> "str",
                         key |-> citation.author \o <<"_">> \o IntToStr(citation.year)],
                        citation)
         ELSE unique

RECURSIVE UniqueCitations(_, _, _)
UniqueCitations(unique, all_citations, i) ==
    IF i > Len(all_citations) THEN unique
    ELSE UniqueCitations(UniqueStep(unique, all_citations[i]), all_citations, i + 1)

\* Lines 409-414: the summary built from all_citations and unique_citations.
CitationInfo(all_citations, unique_citations, style) ==
    [total_citations |-> Len(all_citations),
     unique_citations |-> Len(unique_citations),
     citation_style |-> style,
     citations |-> [i \in 1..Len(unique_citations) |-> unique_citations[i].v]]

\* Lines 399-414.
SummarizeCitations(all_citations, style) ==
    CitationInfo(all_citations, UniqueCitations(<<>>, all_citations, 1), style)

ProcessCitations(formatted, style) ==
    SummarizeCitations(AllCitationsFrom(formatted, 1), style)

(***************************************************************************)
(* TemplateProcessor._calculate_content_statistics                         *)
(***************************************************************************)
RECURSIVE Sum(_, _)
Sum(numbers, i) ==
    IF i > Len(numbers) THEN 0 ELSE numbers[i] + Sum(numbers, i + 1)

\* CalculateContentStatistics that counts the sections with equations
\* instead of the equations.
CalculateContentStatisticsCountingSections(formatted) ==
    [total_words |->
        Sum([i \in 1..Len(formatted) |-> formatted[i].v.word_count], 1),
     total_sections |-> Len(formatted),
     total_citations |->
        Sum([i \in 1..Len(formatted) |-> Len(formatted[i].v.citations)], 1),
     total_equations |->
        Sum([i \in 1..Len(formatted) |->
                IF formatted[i].v.equations # <<>> THEN 1 ELSE 0], 1),
     total_references |->
        Sum([i \in 1..Len(formatted) |-> Len(formatted[i].v.references)], 1),
     section_breakdown |->
        [i \in 1..Len(formatted) |->
            [k |-> formatted[i].k, v |-> formatted[i].v.word_count]]]

CalculateContentStatistics(formatted) ==
    [total_words |->
        Sum([i \in 1..Len(formatted) |-> formatted[i].v.word_count], 1),
     total_sections |-> Len(formatted),
     total_citations |->
        Sum([i \in 1..Len(formatted) |-> Len(formatted[i].v.citations)], 1),
     total_equations |->
        Sum([i \in 1..Len(formatted) |-> Len(formatted[i].v.equations)], 1),
     total_references |->
        Sum([i \in 1..Len(formatted) |-> Len(formatted[i].v.references)], 1),
     section_breakdown |->
        [i \in 1..Len(formatted) |->
            [k |-> formatted[i].k, v |-> formatted[i].v.word_count]]]

(***************************************************************************)
(* TemplateProcessor.process_content.  LookupTemplate is the membership   *)
(* test and the lookup of lines 120-123: None stands for the ValueError.   *)
(* ProcessContent is the dictionary lines 125-156 return.  The timestamp   *)
(* and the uuid of the metadata are values of the environment and are      *)
(* left out.                                                               *)
(***************************************************************************)
\* LookupTemplate with an unknown type falling back to the default template.
LookupTemplateOrDefault(type, registry) ==
    IF type \in DOMAIN registry THEN Some(registry[type]) ELSE Some(registry.article)

\* LookupTemplate that knows the default template only.
LookupTemplateArticleOnly(type, registry) ==
    IF type = "article" THEN Some(registry[type]) ELSE None

LookupTemplate(type, registry) ==
    IF type \in DOMAIN registry THEN Some(registry[type]) ELSE None

\* Lines 135-156, given the locals sections' validation_result and
\* formatted_sections.
AssembleResult(style, type, template_config, validation_result, formatted_sections) ==
    [template_type |-> type,
     style_name |-> style,
     sections |-> formatted_sections,
     table_of_contents |->
        GenerateTableOfContents(formatted_sections, template_config),
     citations |-> ProcessCitations(formatted_sections, style),
     validation |-> validation_result,
     statistics |-> CalculateContentStatistics(formatted_sections),
     metadata |-> [template_config |-> template_config]]

\* Lines 129-156, given the local sections.
ProcessSections(secs, style, type, template_config) ==
    AssembleResult(style, type, template_config,
                   ValidateSections(secs, template_config),
                   ApplyFormatting(secs, style))

ProcessContent(text, style, type, template_config) ==
    ProcessSections(ParseContentSections(text), style, type, template_config)

(***************************************************************************)
(* app.py, process_template (lines 59-76): the handler of                  *)
(* POST /api/template/process.  A field of the request's JSON is an        *)
(* optional value; dict.get supplies the default of an absent one.         *)
(***************************************************************************)
GetOr(field, default) == IF field = None THEN default ELSE field[1]

\* Lines 68-76 and process_content, given the three values of lines 64-66.
HandleProcessTemplate(text, style, type, template_config) ==
    /\ pc = "idle"
    /\ content' = text
    /\ style_name' = style
    /\ template_type' = type
    /\ IF text = <<>>
       THEN /\ pc' = "rejected"
            /\ sections' = None
            /\ result' = None
            /\ error' = None
            /\ response' = [status |-> 400, error |-> "Content is required"]
       ELSE IF template_config = None
       THEN /\ pc' = "raised"
            /\ sections' = None
            /\ result' = None
            /\ error' = Some([type |-> "ValueError",
                              message |-> <<"Unsupported template type: ", type>>])
            /\ response' = [status |-> 500, error |-> "Template processing failed"]
       ELSE /\ pc' = "returned"
            /\ sections' = Some(ParseContentSections(text))
            /\ result' = Some(ProcessContent(text, style, type, template_config[1]))
            /\ error' = None
            /\ response' = [status |-> 200, error |-> ""]
    /\ UNCHANGED <<coordinator, manager>>
    /\ UNCHANGED <<templates, header_text, section_name, held>>

ProcessTemplate(data) ==
    HandleProcessTemplate(
        GetOr(data.content, <<>>),
        GetOr(data.style, "default"),
        GetOr(data.template_type, "article"),
        LookupTemplate(GetOr(data.template_type, "article"), templates))

\* A direct call of process_content (lines 107-156), given the outcome of
\* the lookup of lines 120-123.
ProcessContentOutcome(text, style, type, template_config) ==
    /\ pc = "idle"
    /\ content' = text
    /\ style_name' = style
    /\ template_type' = type
    /\ IF template_config = None
       THEN /\ pc' = "raised"
            /\ sections' = None
            /\ result' = None
            /\ error' = Some([type |-> "ValueError",
                              message |-> <<"Unsupported template type: ", type>>])
       ELSE /\ pc' = "returned"
            /\ sections' = Some(ParseContentSections(text))
            /\ result' = Some(ProcessContent(text, style, type, template_config[1]))
            /\ error' = None
    /\ UNCHANGED <<coordinator, manager>>
    /\ UNCHANGED <<templates, response, header_text, section_name, held>>

ProcessContentCall(text, style, type) ==
    ProcessContentOutcome(text, style, type, LookupTemplate(type, templates))

\* A direct call of _parse_content_sections (lines 158-187).
ParseContentSectionsCall(text) ==
    /\ pc = "idle"
    /\ pc' = "parsed"
    /\ content' = text
    /\ sections' = Some(ParseContentSections(text))
    /\ UNCHANGED <<coordinator, manager>>
    /\ UNCHANGED <<templates, style_name, template_type, result, error, response,
                   header_text, section_name, held>>

\* A direct call of _normalize_section_name (lines 189-215).
NormalizeSectionNameCall(text) ==
    /\ pc = "idle"
    /\ pc' = "normalized"
    /\ header_text' = text
    /\ section_name' = NormalizeSectionName(text)
    /\ UNCHANGED <<coordinator, manager>>
    /\ UNCHANGED <<templates, content, style_name, template_type, sections, result,
                   error, response, held>>

\* The call is over: nothing of it is kept (no state is shared between
\* requests but the registry).
Complete ==
    /\ pc # "idle"
    /\ pc' = "idle"
    /\ content' = <<>>
    /\ style_name' = ""
    /\ template_type' = ""
    /\ sections' = None
    /\ result' = None
    /\ error' = None
    /\ response' = [status |-> 0, error |-> ""]
    /\ header_text' = <<>>
    /\ section_name' = <<>>
    /\ export_config' = None
    /\ history_limit' = None
    /\ style_call' = None
    /\ UNCHANGED <<templates, held, coordination_history, generated_ids,
                   styles_directory>>

(***************************************************************************)
(* StyleManager (services/style_manager.py).  A style configuration is a   *)
(* dictionary whose values are strings, numbers and dictionaries; a value  *)
(* carries its kind, and a string is the sequence of its parts (one part   *)
(* for a literal, several for an f-string).  A style name is a string of   *)
(* characters.  The styles directory is the function from the names of     *)
(* its .json files, without the extension, to their text; the text of a    *)
(* file is the sequence of the tokens json.dump writes.  Timestamps are    *)
(* values of the environment and are left out.                             *)
(***************************************************************************)
Str(parts) == [t |-> "str", x |-> parts]

Num(n) == [t |-> "num", x |-> n]

Dict(d) == [t |-> "dict", x |-> d]

\* _initialize_default_styles (lines 20-230).
style_ieee ==
    <<
      [k |-> "name", v |-> Str(<<"IEEE">>)],
      [k |-> "description", v |-> Str(<<"Institute of Electrical and Electronics Engineers style">>)],
      [k |-> "font_family", v |-> Str(<<"Times New Roman">>)],
      [k |-> "font_size", v |-> Str(<<"10pt">>)],
      [k |-> "line_spacing", v |-> Str(<<"1.0">>)],
      [k |-> "column_count", v |-> Num(2)],
      [k |-> "page_margins", v |-> Dict(<<
          [k |-> "top", v |-> Str(<<"0.75in">>)],
          [k |-> "bottom", v |-> Str(<<"1in">>)],
          [k |-> "left", v |-> Str(<<"0.625in">>)],
          [k |-> "right", v |-> Str(<<"0.625in">>)]>>)],
      [k |-> "header_styles", v |-> Dict(<<
          [k |-> "title", v |-> Dict(<<
              [k |-> "font_size", v |-> Str(<<"14pt">>)],
              [k |-> "font_weight", v |-> Str(<<"bold">>)],
              [k |-> "alignment", v |-> Str(<<"center">>)],
              [k |-> "spacing_after", v |-> Str(<<"12pt">>)]>>)],
          [k |-> "author", v |-> Dict(<<
              [k |-> "font_size", v |-> Str(<<"12pt">>)],
              [k |-> "font_weight", v |-> Str(<<"normal">>)],
              [k |-> "alignment", v |-> Str(<<"center">>)],
              [k |-> "spacing_after", v |-> Str(<<"6pt">>)]>>)],
          [k |-> "abstract", v |-> Dict(<<
              [k |-> "font_size", v |-> Str(<<"9pt">>)],
              [k |-> "font_weight", v |-> Str(<<"bold">>)],
              [k |-> "alignment", v |-> Str(<<"justify">>)],
              [k |-> "indent", v |-> Str(<<"0.25in">>)]>>)]>>)],
      [k |-> "section_styles", v |-> Dict(<<
          [k |-> "heading1", v |-> Dict(<<
              [k |-> "font_size", v |-> Str(<<"10pt">>)],
              [k |-> "font_weight", v |-> Str(<<"bold">>)],
              [k |-> "alignment", v |-> Str(<<"left">>)],
              [k |-> "numbering", v |-> Str(<<"roman_upper">>)],
              [k |-> "spacing_before", v |-> Str(<<"12pt">>)],
              [k |-> "spacing_after", v |-> Str(<<"6pt">>)]>>)],
          [k |-> "heading2", v |-> Dict(<<
              [k |-> "font_size", v |-> Str(<<"10pt">>)],
              [k |-> "font_weight", v |-> Str(<<"bold">>)],
              [k |-> "alignment", v |-> Str(<<"left">>)],
              [k |-> "numbering", v |-> Str(<<"alpha_upper">>)],
              [k |-> "spacing_before", v |-> Str(<<"6pt">>)],
              [k |-> "spacing_after", v |-> Str(<<"3pt">>)]>>)]>>)],
      [k |-> "reference_style", v |-> Dict(<<
          [k |-> "format", v |-> Str(<<"ieee_numeric">>)],
          [k |-> "font_size", v |-> Str(<<"9pt">>)],
          [k |-> "hanging_indent", v |-> Str(<<"0.25in">>)]>>)],
      [k |-> "figure_caption", v |-> Dict(<<
          [k |-> "prefix", v |-> Str(<<"Fig.">>)],
          [k |-> "font_size", v |-> Str(<<"9pt">>)],
          [k |-> "alignment", v |-> Str(<<"center">>)],
          [k |-> "spacing_before", v |-> Str(<<"6pt">>)]>>)],
      [k |-> "table_caption", v |-> Dict(<<
          [k |-> "prefix", v |-> Str(<<"TABLE">>)],
          [k |-> "font_size", v |-> Str(<<"9pt">>)],
          [k |-> "alignment", v |-> Str(<<"center">>)],
          [k |-> "spacing_after", v |-> Str(<<"6pt">>)]>>)]>>

style_nature ==
    <<
      [k |-> "name", v |-> Str(<<"Nature">>)],
      [k |-> "description", v |-> Str(<<"Nature journal publication style">>)],
      [k |-> "font_family", v |-> Str(<<"Times New Roman">>)],
      [k |-> "font_size", v |-> Str(<<"12pt">>)],
      [k |-> "line_spacing", v |-> Str(<<"1.5">>)],
      [k |-> "column_count", v |-> Num(1)],
      [k |-> "page_margins", v |-> Dict(<<
          [k |-> "top", v |-> Str(<<"1in">>)],
          [k |-> "bottom", v |-> Str(<<"1in">>)],
          [k |-> "left", v |-> Str(<<"1in">>)],
          [k |-> "right", v |-> Str(<<"1in">>)]>>)],
      [k |-> "header_styles", v |-> Dict(<<
          [k |-> "title", v |-> Dict(<<
              [k |-> "font_size", v |-> Str(<<"16pt">>)],
              [k |-> "font_weight", v |-> Str(<<"bold">>)],
              [k |-> "alignment", v |-> Str(<<"left">>)],
              [k |-> "spacing_after", v |-> Str(<<"18pt">>)]>>)],
          [k |-> "author", v |-> Dict(<<
              [k |-> "font_size", v |-> Str(<<"12pt">>)],
              [k |-> "font_weight", v |-> Str(<<"normal">>)],
              [k |-> "alignment", v |-> Str(<<"left">>)],
              [k |-> "spacing_after", v |-> Str(<<"12pt">>)]>>)],
          [k |-> "abstract", v |-> Dict(<<
              [k |-> "font_size", v |-> Str(<<"11pt">>)],
              [k |-> "font_weight", v |-> Str(<<"normal">>)],
              [k |-> "alignment", v |-> Str(<<"justify">>)],
              [k |-> "spacing_after", v |-> Str(<<"18pt">>)]>>)]>>)],
      [k |-> "section_styles", v |-> Dict(<<
          [k |-> "heading1", v |-> Dict(<<
              [k |-> "font_size", v |-> Str(<<"14pt">>)],
              [k |-> "font_weight", v |-> Str(<<"bold">>)],
              [k |-> "alignment", v |-> Str(<<"left">>)],
              [k |-> "numbering", v |-> Str(<<"none">>)],
              [k |-> "spacing_before", v |-> Str(<<"18pt">>)],
              [k |-> "spacing_after", v |-> Str(<<"12pt">>)]>>)],
          [k |-> "heading2", v |-> Dict(<<
              [k |-> "font_size", v |-> Str(<<"12pt">>)],
              [k |-> "font_weight", v |-> Str(<<"bold">>)],
              [k |-> "alignment", v |-> Str(<<"left">>)],
              [k |-> "numbering", v |-> Str(<<"none">>)],
              [k |-> "spacing_before", v |-> Str(<<"12pt">>)],
              [k |-> "spacing_after", v |-> Str(<<"6pt">>)]>>)]>>)],
      [k |-> "reference_style", v |-> Dict(<<
          [k |-> "format", v |-> Str(<<"nature_numeric">>)],
          [k |-> "font_size", v |-> Str(<<"10pt">>)],
          [k |-> "hanging_indent", v |-> Str(<<"0.5in">>)]>>)],
      [k |-> "figure_caption", v |-> Dict(<<
          [k |-> "prefix", v |-> Str(<<"Figure">>)],
          [k |-> "font_size", v |-> Str(<<"10pt">>)],
          [k |-> "alignment", v |-> Str(<<"left">>)],
          [k |-> "spacing_before", v |-> Str(<<"6pt">>)]>>)],
      [k |-> "table_caption", v |-> Dict(<<
          [k |-> "prefix", v |-> Str(<<"Table">>)],
          [k |-> "font_size", v |-> Str(<<"10pt">>)],
          [k |-> "alignment", v |-> Str(<<"left">>)],
          [k |-> "spacing_after", v |-> Str(<<"6pt">>)]>>)]>>

style_apa ==
    <<
      [k |-> "name", v |-> Str(<<"APA">>)],
      [k |-> "description", v |-> Str(<<"American Psychological Association style">>)],
      [k |-> "font_family", v |-> Str(<<"Times New Roman">>)],
      [k |-> "font_size", v |-> Str(<<"12pt">>)],
      [k |-> "line_spacing", v |-> Str(<<"2.0">>)],
      [k |-> "column_count", v |-> Num(1)],
      [k |-> "page_margins", v |-> Dict(<<
          [k |-> "top", v |-> Str(<<"1in">>)],
          [k |-> "bottom", v |-> Str(<<"1in">>)],
          [k |-> "left", v |-> Str(<<"1in">>)],
          [k |-> "right", v |-> Str(<<"1in">>)]>>)],
      [k |-> "header_styles", v |-> Dict(<<
          [k |-> "title", v |-> Dict(<<
              [k |-> "font_size", v |-> Str(<<"12pt">>)],
              [k |-> "font_weight", v |-> Str(<<"bold">>)],
              [k |-> "alignment", v |-> Str(<<"center">>)],
              [k |-> "spacing_after", v |-> Str(<<"12pt">>)]>>)],
          [k |-> "author", v |-> Dict(<<
              [k |-> "font_size", v |-> Str(<<"12pt">>)],
              [k |-> "font_weight", v |-> Str(<<"normal">>)],
              [k |-> "alignment", v |-> Str(<<"center">>)],
              [k |-> "spacing_after", v |-> Str(<<"12pt">>)]>>)],
          [k |-> "abstract", v |-> Dict(<<
              [k |-> "font_size", v |-> Str(<<"12pt">>)],
              [k |-> "font_weight", v |-> Str(<<"normal">>)],
              [k |-> "alignment", v |-> Str(<<"justify">>)],
              [k |-> "spacing_after", v |-> Str(<<"12pt">>)]>>)]>>)],
      [k |-> "section_styles", v |-> Dict(<<
          [k |-> "heading1", v |-> Dict(<<
              [k |-> "font_size", v |-> Str(<<"12pt">>)],
              [k |-> "font_weight", v |-> Str(<<"bold">>)],
              [k |-> "alignment", v |-> Str(<<"center">>)],
              [k |-> "numbering", v |-> Str(<<"none">>)],
              [k |-> "spacing_before", v |-> Str(<<"12pt">>)],
              [k |-> "spacing_after", v |-> Str(<<"12pt">>)]>>)],
          [k |-> "heading2", v |-> Dict(<<
              [k |-> "font_size", v |-> Str(<<"12pt">>)],
              [k |-> "font_weight", v |-> Str(<<"bold">>)],
              [k |-> "alignment", v |-> Str(<<"left">>)],
              [k |-> "numbering", v |-> Str(<<"none">>)],
              [k |-> "spacing_before", v |-> Str(<<"12pt">>)],
              [k |-> "spacing_after", v |-> Str(<<"6pt">>)]>>)]>>)],
      [k |-> "reference_style", v |-> Dict(<<
          [k |-> "format", v |-> Str(<<"apa">>)],
          [k |-> "font_size", v |-> Str(<<"12pt">>)],
          [k |-> "hanging_indent", v |-> Str(<<"0.5in">>)]>>)],
      [k |-> "figure_caption", v |-> Dict(<<
          [k |-> "prefix", v |-> Str(<<"Figure">>)],
          [k |-> "font_size", v |-> Str(<<"12pt">>)],
          [k |-> "alignment", v |-> Str(<<"left">>)],
          [k |-> "spacing_before", v |-> Str(<<"6pt">>)]>>)],
      [k |-> "table_caption", v |-> Dict(<<
          [k |-> "prefix", v |-> Str(<<"Table">>)],
          [k |-> "font_size", v |-> Str(<<"12pt">>)],
          [k |-> "alignment", v |-> Str(<<"left">>)],
          [k |-> "spacing_after", v |-> Str(<<"6pt">>)]>>)]>>

n_ieee == <<"i", "e", "e", "e">>

n_nature == <<"n", "a", "t", "u", "r", "e">>

n_apa == <<"a", "p", "a">>

default_styles ==
    <<[k |-> n_ieee, v |-> style_ieee],
      [k |-> n_nature, v |-> style_nature],
      [k |-> n_apa, v |-> style_apa]>>

\* json.dump(config, f): the tokens of the text, an object as its opening
\* brace, its members (a key and the tokens of its value) and its closing
\* brace.
RECURSIVE DumpMembers(_, _)
DumpValue(v) ==
    IF v.t = "dict"
    THEN <<[t |-> "{"]>> \o DumpMembers(v.x, 1) \o <<[t |-> "}"]>>
    ELSE <<v>>

DumpMembers(d, i) ==
    IF i > Len(d) THEN <<>>
    ELSE <<[t |-> "key", x |-> d[i].k]>> \o DumpValue(d[i].v) \o DumpMembers(d, i + 1)

JsonDump(config) == DumpValue(Dict(config))

\* json.load(f): the members of the object that starts before token i, and
\* the index of the token after its closing brace.  A key that comes twice
\* keeps its last value.
RECURSIVE LoadMembers(_, _, _)
LoadNested(tokens, members, key, inner) ==
    LoadMembers(tokens, inner.next, DictSet(members, key, Dict(inner.value)))

LoadMembers(tokens, i, members) ==
    IF tokens[i].t = "}" THEN [value |-> members, next |-> i + 1]
    ELSE IF tokens[i + 1].t = "{"
         THEN LoadNested(tokens, members, tokens[i].x,
                         LoadMembers(tokens, i + 2, <<>>))
         ELSE LoadMembers(tokens, i + 2, DictSet(members, tokens[i].x, tokens[i + 1]))

JsonLoad(tokens) == LoadMembers(tokens, 2, <<>>).value

\* open(file_path, 'w') of lines 322-325 fails when the name has a path
\* separator: the styles directory has no directory in it.
HasSeparator(name) == \E i \in 1..Len(name) : name[i] = "/"

\* __init__ (lines 14-18) in a directory with no files: the files
\* _create_default_style_files writes (lines 236-242).
InitialStylesDirectory ==
    [name \in Keys(default_styles) |->
        JsonDump(DictGet(default_styles, name, None))]

StyleMetadata(source, name) ==
    Dict(<<[k |-> "source", v |-> Str(<<source>>)],
           [k |-> "style_name", v |-> Str(name)]>>)

\* get_style_config (lines 282-309); None is Python's None.
GetStyleConfig(name, directory) ==
    IF name \in Keys(default_styles)
    THEN Some(DictSet(DictGet(default_styles, name, None), "metadata",
                      StyleMetadata("default", name)))
    ELSE IF name \in DOMAIN directory
         THEN Some(DictSet(JsonLoad(directory[name]), "metadata",
                           StyleMetadata("custom", name)))
         ELSE None

\* get_available_styles (lines 244-280).  The dictionary 'styles' is a
\* function of the names here: the order of os.listdir is the file
\* system's.
DefaultStyleEntry(config) ==
    [name |-> DictGet(config, "name", None),
     description |-> DictGet(config, "description", None),
     source |-> "default"]

CustomStyleEntry(name, config) ==
    [name |-> DictGet(config, "name", Str(name)),
     description |-> DictGet(config, "description", Str(<<"Custom style">>)),
     source |-> "custom"]

AvailableStyles(directory) ==
    [name \in Keys(default_styles) \cup DOMAIN directory |->
        IF name \in Keys(default_styles)
        THEN DefaultStyleEntry(DictGet(default_styles, name, None))
        ELSE CustomStyleEntry(name, JsonLoad(directory[name]))]

GetAvailableStyles(directory) ==
    [styles |-> AvailableStyles(directory),
     count |-> Cardinality(Keys(default_styles) \cup DOMAIN directory)]

\* A directory with the file of a name written or removed.
WriteFile(directory, name, text) ==
    [n \in DOMAIN directory \cup {name} |->
        IF n = name THEN text ELSE directory[n]]

RemoveFile(directory, name) ==
    [n \in DOMAIN directory \ {name} |-> directory[n]]

\* update_style_config (lines 311-339): what it returns and the directory
\* afterwards.
UpdateStyleConfig(name, config_data, directory) ==
    IF HasSeparator(name)
    THEN [returned |-> [success |-> FALSE,
                        message |-> <<"Failed to update style: ",
                                      "No such file or directory">>,
                        style_name |-> name],
          directory |-> directory]
    ELSE [returned |-> [success |-> TRUE,
                        message |-> <<"Style ", name, " updated successfully">>,
                        style_name |-> name],
          directory |->
            WriteFile(directory, name,
                      JsonDump(DictSet(config_data, "metadata",
                               Dict(<<[k |-> "style_name", v |-> Str(name)],
                                      [k |-> "source", v |-> Str(<<"custom">>)]>>))))]

\* create_custom_style (lines 380-397), given get_style_config(base_style).
CreateFromBase(name, base_style, base_config, directory) ==
    IF base_config = None
    THEN [returned |-> [success |-> FALSE,
                        message |-> <<"Base style ", base_style, " not found">>],
          directory |-> directory]
    ELSE UpdateStyleConfig(
            name,
            DictSet(DictSet(base_config[1], "name", Str(name)),
                    "description",
                    Str(<<"Custom style based on ">> \o base_style)),
            directory)

CreateCustomStyle(name, base_style, directory) ==
    CreateFromBase(name, base_style,
                   GetStyleConfig(base_style, directory), directory)

\* DeleteCustomStyle without the test for a default style.
DeleteAnyStyle(name, directory) ==
    IF name \in DOMAIN directory
    THEN [returned |-> [success |-> TRUE,
                        message |-> <<"Style ", name, " deleted successfully">>],
          directory |-> RemoveFile(directory, name)]
    ELSE [returned |-> [success |-> FALSE, message |-> <<"Style not found">>],
          directory |-> directory]

\* delete_custom_style (lines 399-424).
DeleteCustomStyle(name, directory) ==
    IF name \in Keys(default_styles)
    THEN [returned |-> [success |-> FALSE,
                        message |-> <<"Cannot delete default styles">>],
          directory |-> directory]
    ELSE IF name \in DOMAIN directory
         THEN [returned |-> [success |-> TRUE,
                             message |-> <<"Style ", name,
                                           " deleted successfully">>],
               directory |-> RemoveFile(directory, name)]
         ELSE [returned |-> [success |-> FALSE, message |-> <<"Style not found">>],
               directory |-> directory]

\* A call of the style manager that has come to outcome.
StyleCall(call, position, outcome) ==
    /\ pc = "idle"
    /\ pc' = position
    /\ style_call' = Some(call)
    /\ result' = Some(outcome.returned)
    /\ styles_directory' = outcome.directory
    /\ UNCHANGED coordinator
    /\ UNCHANGED <<templates, content, style_name, template_type, sections,
                   error, response, header_text, section_name, held>>

UpdateStyleConfigCall(name, config_data) ==
    StyleCall([style_name |-> name, config_data |-> config_data], "updated",
              UpdateStyleConfig(name, config_data, styles_directory))

CreateCustomStyleCall(name, base_style) ==
    StyleCall([style_name |-> name, base_style |-> base_style], "created",
              CreateCustomStyle(name, base_style, styles_directory))

DeleteCustomStyleCall(name) ==
    StyleCall([style_name |-> name], "deleted",
              DeleteCustomStyle(name, styles_directory))

GetStyleConfigCall(name) ==
    StyleCall([style_name |-> name], "got",
              [returned |-> GetStyleConfig(name, styles_directory),
               directory |-> styles_directory])

GetAvailableStylesCall ==
    StyleCall([style_name |-> <<>>], "available",
              [returned |-> GetAvailableStyles(styles_directory),
               directory |-> styles_directory])

\* The state after TemplateProcessor.__init__ (lines 14-16),
\* ExportCoordinator.__init__ (lines 16-19) and StyleManager.__init__
\* (lines 14-18).
Init ==
    /\ templates = InitialTemplates
    /\ pc = "idle"
    /\ content = <<>>
    /\ style_name = ""
    /\ template_type = ""
    /\ sections = None
    /\ result = None
    /\ error = None
    /\ response = [status |-> 0, error |-> ""]
    /\ header_text = <<>>
    /\ section_name = <<>>
    /\ held = {}
    /\ coordination_history = <<>>
    /\ generated_ids = 0
    /\ export_config = None
    /\ history_limit = None
    /\ styles_directory = InitialStylesDirectory
    /\ style_call = None

(***************************************************************************)
(* TemplateProcessor.get_template (lines 434-443) and what callers can do  *)
(* with the values they are handed.  dict.copy() is shallow: the returned  *)
(* dictionary is new, with its own entries for the top-level keys, and     *)
(* the lists under 'sections' and 'required_sections' are the lists of     *)
(* the registry.  A held descriptor is [template_name, own]: own holds     *)
(* the entries of the new dictionary that are values of their own; its     *)
(* lists are read from the registry.  The template_config in the metadata  *)
(* of a result (line 154) is the dictionary of the registry itself.        *)
(***************************************************************************)
\* The entries of the copy that do not alias the registry (lines 437-441;
\* the timestamp is left out).
ShallowCopy(template_name, template) ==
    [template_name |-> template_name,
     own |-> [name |-> template.name,
              section_order |-> template.section_order,
              max_abstract_words |-> template.max_abstract_words,
              reference_format |-> template.reference_format,
              metadata |-> [template_name |-> template_name]]]

\* get_template(template_name): an unknown name returns None.
GetTemplate(template_name) ==
    /\ pc = "idle"
    /\ held' = IF template_name \in DOMAIN templates
               THEN held \cup {ShallowCopy(template_name, templates[template_name])}
               ELSE held
    /\ UNCHANGED <<coordinator, manager>>
    /\ UNCHANGED <<templates, pc, content, style_name, template_type, sections,
                   result, error, response, header_text, section_name>>

\* A caller appends to a list of a descriptor it holds, descriptor[field]
\* .append(item): the list is the list of the registry.
CallerAppendsToHeld(descriptor, field, item, limit) ==
    /\ descriptor \in held
    /\ Len(templates[descriptor.template_name][field]) < limit
    /\ templates' = [templates EXCEPT ![descriptor.template_name][field] =
                                            Append(@, item)]
    /\ UNCHANGED <<coordinator, manager>>
    /\ UNCHANGED <<pc, content, style_name, template_type, sections, result,
                   error, response, header_text, section_name, held>>

\* A caller assigns to a key of a descriptor it holds,
\* descriptor['max_abstract_words'] = value: the copy alone changes.
CallerAssignsInHeld(descriptor, value) ==
    /\ descriptor \in held
    /\ held' = (held \ {descriptor})
                  \cup {[descriptor EXCEPT !.own.max_abstract_words = value]}
    /\ UNCHANGED <<coordinator, manager>>
    /\ UNCHANGED <<templates, pc, content, style_name, template_type, sections,
                   result, error, response, header_text, section_name>>

\* The caller of process_content appends to a list of
\* result['metadata']['template_config'], which is the registry's entry.
CallerAppendsToConfig(field, item, limit) ==
    /\ pc = "returned"
    /\ Len(templates[template_type][field]) < limit
    /\ templates' = [templates EXCEPT ![template_type][field] = Append(@, item)]
    /\ result' = [result EXCEPT ![1].metadata.template_config[field] = Append(@, item)]
    /\ UNCHANGED <<coordinator, manager>>
    /\ UNCHANGED <<pc, content, style_name, template_type, sections, error,
                   response, header_text, section_name, held>>

\* The caller of process_content assigns to a key of
\* result['metadata']['template_config'].
CallerAssignsInConfig(value) ==
    /\ pc = "returned"
    /\ templates' = [templates EXCEPT ![template_type].max_abstract_words = value]
    /\ result' = [result EXCEPT ![1].metadata.template_config.max_abstract_words = value]
    /\ UNCHANGED <<coordinator, manager>>
    /\ UNCHANGED <<pc, content, style_name, template_type, sections, error,
                   response, header_text, section_name, held>>

(***************************************************************************)
(* ExportCoordinator (services/export_coordinator.py).  The names of       *)
(* services, formats, styles and actions are only compared, so they are    *)
(* plain strings here.  An export_config is a record of its keys, each an  *)
(* optional value: None stands for a key the dictionary does not have.     *)
(* Response times, execution times and timestamps are values of the        *)
(* environment and are left out; a coordination id is the number of the    *)
(* uuid4() call that made it, every call giving a fresh one.               *)
(***************************************************************************)
\* _initialize_service_registry (lines 21-42).
service_registry ==
    <<[k |-> "distance_server",
       v |-> [url |-> "http://localhost:5001",
              capabilities |-> <<"distance_calculation", "visualization",
                                 "data_export">>,
              export_formats |-> <<"json", "csv", "excel">>,
              health_endpoint |-> "/health"]],
      [k |-> "styles_gallery",
       v |-> [url |-> "http://localhost:4090",
              capabilities |-> <<"style_management", "asset_serving",
                                 "preview_generation">>,
              export_formats |-> <<"html", "css", "json">>,
              health_endpoint |-> "/health"]],
      [k |-> "style_assets",
       v |-> [url |-> "http://localhost:5003",
              capabilities |-> <<"asset_management", "font_serving",
                                 "color_schemes">>,
              export_formats |-> <<"zip", "tar", "json">>,
              health_endpoint |-> "/health"]]>>

\* _initialize_export_formats (lines 44-82).
export_formats ==
    <<[k |-> "pdf",
       v |-> [name |-> "PDF Document",
              mime_type |-> "application/pdf",
              requires_latex |-> TRUE,
              compatible_styles |-> <<"ieee", "nature", "apa">>,
              processing_service |-> "publication_style_config_server"]],
      [k |-> "docx",
       v |-> [name |-> "Microsoft Word Document",
              mime_type |->
                "application/vnd.openxmlformats-officedocument.wordprocessingml.document",
              requires_latex |-> FALSE,
              compatible_styles |-> <<"ieee", "nature", "apa">>,
              processing_service |-> "publication_style_config_server"]],
      [k |-> "html",
       v |-> [name |-> "HTML Document",
              mime_type |-> "text/html",
              requires_latex |-> FALSE,
              compatible_styles |-> <<"ieee", "nature", "apa", "web">>,
              processing_service |-> "styles_gallery"]],
      [k |-> "latex",
       v |-> [name |-> "LaTeX Source",
              mime_type |-> "text/x-tex",
              requires_latex |-> FALSE,
              compatible_styles |-> <<"ieee", "nature", "apa">>,
              processing_service |-> "publication_style_config_server"]],
      [k |-> "markdown",
       v |-> [name |-> "Markdown Document",
              mime_type |-> "text/markdown",
              requires_latex |-> FALSE,
              compatible_styles |-> <<"github", "basic">>,
              processing_service |-> "publication_style_config_server"]]>>

\* _validate_export_config (lines 127-156).
MissingFields(config) ==
    SelectSeq(<<"content", "style", "format">>, LAMBDA field : config[field] = None)

ValidationErrors(config, missing) ==
    [i \in 1..Len(missing) |-> <<"Missing required field: ", missing[i]>>]
    \o (IF config.format # None /\ config.format[1] \notin Keys(export_formats)
        THEN <<<<"Unsupported export format: ", config.format[1]>>>>
        ELSE <<>>)

\* Lines 148-154, given format_config.get('compatible_styles', []).
CompatibilityWarnings(config, compatible_styles) ==
    IF compatible_styles # <<>> /\ ~InList(config.style[1], compatible_styles)
    THEN <<<<"Style ", config.style[1], " may not be compatible with format ",
             config.format[1]>>>>
    ELSE <<>>

ValidationWarnings(config) ==
    IF config.style # None /\ config.format # None
    THEN CompatibilityWarnings(config,
            IF config.format[1] \in Keys(export_formats)
            THEN DictGet(export_formats, config.format[1], None).compatible_styles
            ELSE <<>>)
    ELSE <<>>

ExportValidation(errors, warnings) ==
    [valid |-> errors = <<>>, errors |-> errors, warnings |-> warnings]

ValidateExportConfig(config) ==
    ExportValidation(ValidationErrors(config, MissingFields(config)),
                     ValidationWarnings(config))

\* _check_service_availability (lines 158-178); healthy is the set of the
\* services whose health endpoint answers 200 (lines 180-205).
ServiceAvailability(service_name, healthy) ==
    IF service_name \in Keys(service_registry)
    THEN [available |-> service_name \in healthy,
          capabilities |-> DictGet(service_registry, service_name, None).capabilities,
          url |-> DictGet(service_registry, service_name, None).url]
    ELSE [available |-> FALSE, error |-> "Service not found in registry"]

RECURSIVE CheckServiceAvailability(_, _, _, _)
CheckServiceAvailability(availability, target_services, healthy, i) ==
    IF i > Len(target_services) THEN availability
    ELSE CheckServiceAvailability(
            DictSet(availability, target_services[i],
                    ServiceAvailability(target_services[i], healthy)),
            target_services, healthy, i + 1)

\* _plan_export_workflow (lines 206-266).
GetOpt(value, default) == IF value = None THEN default ELSE value[1]

PreprocessStep(config) ==
    [step |-> 1,
     action |-> "preprocess_content",
     service |-> "publication_style_config_server",
     description |-> <<"Process content with style and template">>,
     inputs |-> [content |-> config.content[1],
                 style |-> config.style[1],
                 template_type |-> GetOpt(config.template_type, "article")]]

AssetSteps(config, available_services) ==
    IF /\ "style_assets" \in Keys(available_services)
       /\ DictGet(available_services, "style_assets", None).available
    THEN <<[step |-> 2,
            action |-> "coordinate_assets",
            service |-> "style_assets",
            description |-> <<"Gather required style assets">>,
            inputs |-> [style |-> config.style[1],
                        format |-> config.format[1]]]>>
    ELSE <<>>

\* The steps appended after those of workflow (lines 237-264).
LastSteps(config, workflow) ==
    <<[step |-> 3,
       action |-> "format_conversion",
       service |-> DictGet(export_formats, config.format[1],
                           None).processing_service,
       description |-> <<"Convert to ", config.format[1], " format">>,
       inputs |-> [processed_content |-> "from_step_1",
                   assets |-> IF Len(workflow) > 1 THEN Some("from_step_2") ELSE None,
                   format |-> config.format[1],
                   export_options |-> GetOpt(config.export_options, <<>>)]],
      [step |-> 4,
       action |-> "validate_output",
       service |-> "publication_style_config_server",
       description |-> <<"Validate export quality and completeness">>,
       inputs |-> [exported_content |-> "from_step_3",
                   validation_rules |->
                        GetOpt(config.validation_rules, <<>>)]]>>

WorkflowOf(config, workflow) == workflow \o LastSteps(config, workflow)

PlanExportWorkflow(config, available_services) ==
    WorkflowOf(config,
               <<PreprocessStep(config)>>
               \o AssetSteps(config, available_services))

\* _execute_workflow_step (lines 316-380).
ExecuteWorkflowStep(step, coordination_id) ==
    CASE step.action = "preprocess_content" ->
            [success |-> TRUE,
             output |-> [processed_content |->
                            <<"Processed content with style ", step.inputs.style>>,
                         sections |-> <<"title", "abstract", "introduction",
                                        "conclusion">>,
                         word_count |-> 2500,
                         style_applied |-> step.inputs.style]]
      [] step.action = "coordinate_assets" ->
            [success |-> TRUE,
             output |-> [fonts |-> <<"times-new-roman", "arial">>,
                         color_scheme |-> "academic_blue",
                         templates |-> <<"ieee_template.css">>,
                         asset_count |-> 15]]
      [] step.action = "format_conversion" ->
            [success |-> TRUE,
             output |-> [format |-> step.inputs.format,
                         file_size |-> "1.2MB",
                         pages |-> 8,
                         conversion_quality |-> "high",
                         download_url |-> <<"/exports/", coordination_id,
                                            "/output.", step.inputs.format>>]]
      [] step.action = "validate_output" ->
            [success |-> TRUE,
             output |-> [validation_passed |-> TRUE,
                         quality_score |-> "0.95",
                         issues_found |-> 0,
                         recommendations |-> <<>>]]
      [] OTHER ->
            [success |-> FALSE,
             error |-> <<"Unknown action: ", step.action>>]

\* _execute_export_workflow (lines 268-314): one iteration of the loop for
\* a step whose result is step_result, and the loop from step i on.
StepRecord(step, step_result) ==
    [step |-> step.step,
     action |-> step.action,
     service |-> step.service,
     success |-> step_result.success,
     output |-> IF step_result.success THEN Some(step_result.output) ELSE None]

ExecutedStep(execution_result, workflow, step, step_result) ==
    IF step_result.success
    THEN [execution_result EXCEPT
            !.step_results = Append(@, StepRecord(step, step_result)),
            !.steps_completed = @ + 1,
            !.final_output = IF step.step = Len(workflow)
                             THEN Some(step_result.output) ELSE @]
    ELSE [execution_result EXCEPT
            !.step_results = Append(@, StepRecord(step, step_result)),
            !.success = FALSE,
            !.errors = Append(@, <<"Step ", step.step, " failed: ",
                                   step_result.error>>)]

RECURSIVE ExecuteFrom(_, _, _, _)
ExecuteFrom(execution_result, workflow, coordination_id, i) ==
    IF i > Len(workflow) \/ ~execution_result.success THEN execution_result
    ELSE ExecuteFrom(ExecutedStep(execution_result, workflow, workflow[i],
                                  ExecuteWorkflowStep(workflow[i], coordination_id)),
                     workflow, coordination_id, i + 1)

ExecuteExportWorkflow(workflow, coordination_id) ==
    ExecuteFrom([success |-> TRUE,
                 steps_completed |-> 0,
                 step_results |-> <<>>,
                 errors |-> <<>>,
                 final_output |-> None],
                workflow, coordination_id, 1)

\* _store_coordination_history (lines 382-398): the list afterwards.
LastEntries(history, n) ==
    SubSeq(history, Max({1, Len(history) - n + 1}), Len(history))

StoreCoordinationHistory(history, coordination_id, config, execution_result) ==
    LastEntries(Append(history,
                       [coordination_id |-> coordination_id,
                        export_config |-> config,
                        execution_result |-> execution_result,
                        success |-> execution_result.success]),
                100)

\* coordinate_export (lines 84-125), step by step with the values computed
\* so far.  A config that passes validation without the key
\* target_services raises KeyError at line 102.
ExportExecuted(config, coordination_id, available_services, workflow,
               execution_result) ==
    /\ pc' = "coordinated"
    /\ coordination_history'
            = StoreCoordinationHistory(coordination_history, coordination_id,
                                       config, execution_result)
    /\ result' = Some([success |-> execution_result.success,
                       coordination_id |-> coordination_id,
                       workflow |-> workflow,
                       results |-> execution_result,
                       available_services |-> available_services])
    /\ error' = None

ExportPlanned(config, coordination_id, available_services, workflow) ==
    ExportExecuted(config, coordination_id, available_services, workflow,
                   ExecuteExportWorkflow(workflow, coordination_id))

ExportAvailable(config, coordination_id, available_services) ==
    ExportPlanned(config, coordination_id, available_services,
                  PlanExportWorkflow(config, available_services))

ExportValidated(config, healthy, coordination_id, validation_result) ==
    IF ~validation_result.valid
    THEN /\ pc' = "coordinated"
         /\ result' = Some([success |-> FALSE,
                            coordination_id |-> coordination_id,
                            errors |-> validation_result.errors])
         /\ error' = None
         /\ UNCHANGED coordination_history
    ELSE IF config.target_services = None
         THEN /\ pc' = "raised"
              /\ result' = None
              /\ error' = Some([type |-> "KeyError",
                                message |-> <<"target_services">>])
              /\ UNCHANGED coordination_history
         ELSE ExportAvailable(config, coordination_id,
                              CheckServiceAvailability(<<>>, config.target_services[1],
                                                       healthy, 1))

\* A call of coordinate_export; calls is the number of calls the model
\* follows.
CoordinateExport(config, healthy, calls) ==
    /\ pc = "idle"
    /\ generated_ids < calls
    /\ generated_ids' = generated_ids + 1
    /\ export_config' = Some(config)
    /\ ExportValidated(config, healthy, generated_ids + 1,
                       ValidateExportConfig(config))
    /\ UNCHANGED <<templates, content, style_name, template_type, sections,
                   response, header_text, section_name, held, history_limit,
                   manager>>

\* get_coordination_history (lines 400-407): history[-limit:].
LastOf(history, n) ==
    IF n = 0 THEN history
    ELSE IF n > 0 THEN LastEntries(history, n)
    ELSE SubSeq(history, Min({-n, Len(history)}) + 1, Len(history))

Successful(history) == SelectSeq(history, LAMBDA entry : entry.success)

\* _calculate_success_rate (lines 409-415), as the fraction <<n, d>>.
CalculateSuccessRate(history) ==
    IF history = <<>> THEN <<0, 1>>
    ELSE <<Len(Successful(history)), Len(history)>>

GetCoordinationHistory(n) ==
    /\ pc = "idle"
    /\ pc' = "listed"
    /\ history_limit' = Some(n)
    /\ result' = Some([history |-> LastOf(coordination_history, n),
                       total_coordinations |-> Len(coordination_history),
                       success_rate |-> CalculateSuccessRate(coordination_history)])
    /\ UNCHANGED <<templates, content, style_name, template_type, sections,
                   error, response, header_text, section_name, held,
                   coordination_history, generated_ids, export_config,
                   manager>>

(***************************************************************************)
(* The inputs.  A document is up to n blocks joined by newlines; a block   *)
(* is one or more header lines with their bodies.  A request carries a     *)
(* document, a style and a template type, each of which may be absent.     *)
(***************************************************************************)
SeqsUpTo(S, n) == UNION {[1..k -> S] : k \in 0..n}

Documents(blocks, n) == {Join(bs, "\n") : bs \in SeqsUpTo(blocks, n)}

Optional(S) == {Some(x) : x \in S} \cup {None}

\* n words separated by single spaces.
Words(n) == [i \in 1..(2 * n - 1) |-> IF i % 2 = 1 THEN "w" ELSE " "]

b_title ==
    <<"#", " ", "T", "i", "t", "l", "e", "\n", "A", " ", "S", "t", "u",
      "d", "y">>

b_authors ==
    <<"#", " ", "A", "u", "t", "h", "o", "r", "s", "\n", "J", " ", "D",
      "o", "e">>

b_abstract ==
    <<"#", " ", "A", "b", "s", "t", "r", "a", "c", "t", "\n", "S", "h",
      "o", "r", "t", " ", "t", "e", "x", "t", ".">>

b_executive_summary ==
    <<"#", " ", "E", "x", "e", "c", "u", "t", "i", "v", "e", " ", "S", "u",
      "m", "m", "a", "r", "y", "\n", "S", "u", "m", " ", "u", "p">>

b_title_page ==
    <<"#", " ", "T", "i", "t", "l", "e", " ", "P", "a", "g", "e", "\n",
      "A", " ", "T", "h", "e", "s", "i", "s">>

b_introduction ==
    <<"#", " ", "I", "n", "t", "r", "o", "d", "u", "c", "t", "i", "o", "n",
      "\n", "S", "e", "e", " ", "[", "1", "]", " ", "a", "n", "d", " ",
      "(", "S", "m", "i", "t", "h", ",", " ", "2", "0", "2", "0", ")", ".">>

b_notes ==
    <<"#", " ", "N", "o", "t", "e", "s", "\n", "m", "i", "s", "c">>

b_front_article ==
    <<"#", " ", "T", "i", "t", "l", "e", "\n", "A", " ", "S", "t", "u",
      "d", "y", "\n", "#", " ", "A", "u", "t", "h", "o", "r", "s", "\n",
      "J", " ", "D", "o", "e">>

b_front_report ==
    <<"#", " ", "E", "x", "e", "c", "u", "t", "i", "v", "e", " ", "S", "u",
      "m", "m", "a", "r", "y", "\n", "S", "u", "m", " ", "u", "p", "\n",
      "#", " ", "A", "u", "t", "h", "o", "r", "s", "\n", "J", " ", "D",
      "o", "e", "\n", "#", " ", "T", "i", "t", "l", "e", "\n", "A", " ",
      "S", "t", "u", "d", "y">>

b_front_thesis ==
    <<"#", " ", "I", "n", "t", "r", "o", "d", "u", "c", "t", "i", "o", "n",
      "\n", "W", "e", " ", "b", "e", "g", "i", "n", "\n", "#", " ", "T",
      "i", "t", "l", "e", " ", "P", "a", "g", "e", "\n", "A", " ", "T",
      "h", "e", "s", "i", "s">>

h_abstract ==
    <<"#", " ", "A", "b", "s", "t", "r", "a", "c", "t", "\n">>


\* The registered template types, and one that is not registered.
TemplateTypes == DOMAIN InitialTemplates \cup {"poster"}

(***************************************************************************)
(* Spec: requests for every template type, registered or not, with         *)
(* documents of up to MaxBlocks sections in any order: sections the        *)
(* templates require, declare or do not know.                              *)
(***************************************************************************)
MaxBlocks == 3

SectionBlocks ==
    {b_title, b_authors, b_abstract, b_executive_summary, b_title_page,
     b_introduction, b_notes}

SectionRequests ==
    [content : Optional(Documents(SectionBlocks, MaxBlocks)),
     style : Optional({"ieee"}),
     template_type : Optional(TemplateTypes)]

Next ==
    \/ pc = "idle" /\ \E data \in SectionRequests : ProcessTemplate(data)
    \/ Complete

Spec == Init /\ [][Next]_vars

(***************************************************************************)
(* SpecValidation: requests for the registered template types with         *)
(* documents of up to MaxParts blocks: the front matter of a template, an  *)
(* unknown section, and abstracts of a few words, of exactly the word      *)
(* ceiling of a template and of one word more.                             *)
(***************************************************************************)
MaxParts == 2

AbstractLengths ==
    {2} \cup UNION {{InitialTemplates[t].max_abstract_words,
                     InitialTemplates[t].max_abstract_words + 1} :
                        t \in DOMAIN InitialTemplates}

ValidationBlocks ==
    {b_front_article, b_front_report, b_front_thesis, b_notes}
    \cup {h_abstract \o Words(n) : n \in AbstractLengths}

ValidationRequests ==
    [content : {Some(d) : d \in Documents(ValidationBlocks, MaxParts)},
     style : {Some("ieee")},
     template_type : {Some(t) : t \in DOMAIN InitialTemplates}]

NextValidation ==
    \/ pc = "idle" /\ \E data \in ValidationRequests : ProcessTemplate(data)
    \/ Complete

SpecValidation == Init /\ [][NextValidation]_vars

(***************************************************************************)
(* SpecSegment: direct calls of _parse_content_sections with documents of  *)
(* up to MaxLines lines: empty and blank lines, body lines with and        *)
(* without whitespace around them, headers of the synonym table in several *)
(* spellings, a header of no text and a header the table does not know.    *)
(***************************************************************************)
l_empty ==
    <<>>

l_blank ==
    <<" ", " ", "\t">>

l_text ==
    <<"s", "o", "m", "e", " ", "t", "e", "x", "t">>

l_indented ==
    <<" ", " ", "m", "o", "r", "e", " ", "[", "1", "]", " ", "t", "e", "x",
      "t", "\t">>

l_methods ==
    <<"#", " ", "M", "e", "t", "h", "o", "d", "s">>

l_methodology ==
    <<"#", "#", " ", "M", "E", "T", "H", "O", "D", "O", "L", "O", "G", "Y">>

l_bibliography ==
    <<" ", " ", "#", "B", "i", "b", "l", "i", "o", "g", "r", "a", "p", "h",
      "y">>

l_references ==
    <<"#", "#", "#", " ", "r", "e", "f", "e", "r", "e", "n", "c", "e", "s",
      " ">>

l_marker ==
    <<"#">>

l_notes ==
    <<"#", " ", "F", "i", "e", "l", "d", " ", "N", "o", "t", "e", "s">>

MaxLines == 3

SegmentLines ==
    {l_empty, l_blank, l_text, l_indented, l_methods,
     l_methodology, l_bibliography, l_references, l_marker, l_notes}

SegmentDocuments == Documents(SegmentLines, MaxLines)

NextSegment ==
    \/ pc = "idle" /\ \E text \in SegmentDocuments : ParseContentSectionsCall(text)
    \/ Complete

SpecSegment == Init /\ [][NextSegment]_vars

(***************************************************************************)
(* SpecNormalize: direct calls of _normalize_section_name with header      *)
(* texts of up to MaxTokens tokens: words of the synonym table and others, *)
(* spaces, tabs and underscores.                                           *)
(***************************************************************************)
MaxTokens == 3

HeaderTokens ==
    {<<"m", "e", "t", "h", "o", "d", "s">>,
     <<"l", "i", "t", "e", "r", "a", "t", "u", "r", "e">>,
     <<"r", "e", "v", "i", "e", "w">>,
     <<"n", "o", "t", "e", "s">>,
     <<"M", "e", "t", "h", "o", "d", "s">>,
     <<" ">>, <<"\t">>, <<"_">>}

RECURSIVE Concat(_)
Concat(parts) ==
    IF parts = <<>> THEN <<>> ELSE parts[1] \o Concat(Tail(parts))

HeaderTexts == {Concat(ts) : ts \in SeqsUpTo(HeaderTokens, MaxTokens)}

NextNormalize ==
    \/ pc = "idle" /\ \E text \in HeaderTexts : NormalizeSectionNameCall(text)
    \/ Complete

SpecNormalize == Init /\ [][NextNormalize]_vars

(***************************************************************************)
(* SpecCitations: requests for the article template with documents of up   *)
(* to MaxCited blocks that cite: groups of one and of several numbers, a   *)
(* number cited in several sections, a number repeated in a group, author  *)
(* and year citations of one author in two years and of two authors in    *)
(* one year, a number equal to a year, a body with no header of its own,   *)
(* and two headers of the same canonical name.                             *)
(***************************************************************************)
c_approach ==
    <<"#", " ", "A", "p", "p", "r", "o", "a", "c", "h", "\n", "[", "7",
      "]", " ", "a", " ", "[", "7", "]">>

c_methods ==
    <<"#", "#", " ", "M", "e", "t", "h", "o", "d", "s", "\n", "[", "7",
      "]", " ", "a">>

c_results ==
    <<"#", " ", "R", "e", "s", "u", "l", "t", "s", "\n", "[", "1", "2",
      ",", " ", "7", "]">>

c_methodology ==
    <<"#", " ", "M", "e", "t", "h", "o", "d", "o", "l", "o", "g", "y",
      "\n", "s", "e", "e", " ", "[", "7", "]">>

c_discussion ==
    <<"#", " ", "D", "i", "s", "c", "u", "s", "s", "i", "o", "n", "\n",
      "[", "8", "]", " ", "a", "n", "d", " ", "[", "7", ",", " ", "8", "]",
      " ", "(", "D", "o", "e", ",", " ", "2", "0", "2", "0", ")">>

c_notes ==
    <<"#", " ", "N", "o", "t", "e", "s", "\n", "[", "7", ",", " ", "7",
      "]", " ", "(", "D", "o", "e", ",", " ", "2", "0", "2", "0", ")">>

c_text ==
    <<"a", "l", "s", "o", " ", "[", "1", "2", "]">>

c_related ==
    <<"#", " ", "B", "a", "c", "k", "g", "r", "o", "u", "n", "d", "\n",
      "(", "D", "o", "e", ",", " ", "2", "0", "2", "1", ")", " ", "(", "R",
      "o", "e", " ", "e", "t", " ", "a", "l", ".", ",", " ", "2", "0", "2",
      "0", ")", " ", "[", "2", "0", "2", "0", "]">>

MaxCited == 3

CitationBlocks ==
    {c_approach, c_methods, c_results, c_methodology, c_discussion, c_notes,
     c_text, c_related}

CitationRequests ==
    [content : {Some(d) : d \in Documents(CitationBlocks, MaxCited)},
     style : {Some("ieee")},
     template_type : {Some("article")}]

NextCitations ==
    \/ pc = "idle" /\ \E data \in CitationRequests : ProcessTemplate(data)
    \/ Complete

SpecCitations == Init /\ [][NextCitations]_vars

(***************************************************************************)
(* SpecEquations: requests for the article template with documents of up   *)
(* to MaxEquationBlocks sections: equations between single and between     *)
(* double markers, several in one section and one in each of several,      *)
(* figure and table references, a citation, and a section with none.       *)
(***************************************************************************)
e_methods ==
    <<"#", " ", "M", "e", "t", "h", "o", "d", "s", "\n", "$", "a", "$",
      " ", "a", "n", "d", " ", "$", "b", "$", " ", "i", "n", " ", "F", "i",
      "g", "u", "r", "e", " ", "1">>

e_results ==
    <<"#", " ", "R", "e", "s", "u", "l", "t", "s", "\n", "$", "$", "E",
      "$", "$", " ", "t", "h", "e", "n", " ", "$", "c", "$", " ", "T", "a",
      "b", "l", "e", " ", "2", " ", "[", "3", "]">>

e_discussion ==
    <<"#", " ", "D", "i", "s", "c", "u", "s", "s", "i", "o", "n", "\n",
      "$", "$", "x", "$", "$">>

e_notes ==
    <<"#", " ", "N", "o", "t", "e", "s", "\n", "n", "o", " ", "m", "a",
      "t", "h">>

e_introduction ==
    <<"#", " ", "I", "n", "t", "r", "o", "d", "u", "c", "t", "i", "o", "n",
      "\n", "$", "p", "$">>

e_conclusion ==
    <<"#", " ", "C", "o", "n", "c", "l", "u", "s", "i", "o", "n", "\n",
      "$", "$", "u", "$", "$", " ", "$", "$", "v", "$", "$", " ", "F", "i",
      "g", "u", "r", "e", " ", "3", " ", "T", "a", "b", "l", "e", " ", "4">>

MaxEquationBlocks == 3

EquationBlocks ==
    {e_methods, e_results, e_discussion, e_notes, e_introduction, e_conclusion}

EquationRequests ==
    [content : {Some(d) : d \in Documents(EquationBlocks, MaxEquationBlocks)},
     style : {Some("ieee")},
     template_type : {Some("article")}]

NextEquations ==
    \/ pc = "idle" /\ \E data \in EquationRequests : ProcessTemplate(data)
    \/ Complete

SpecEquations == Init /\ [][NextEquations]_vars

(***************************************************************************)
(* SpecRegistry: get_template calls for two registered names and an        *)
(* unknown one, requests for the two templates with a document that has    *)
(* the required sections of the article template and one that lacks them,  *)
(* and callers that change what they were handed: they append, up to       *)
(* MaxAppended times, a section name to a list, or set the word ceiling.   *)
(***************************************************************************)
MaxAppended == 1

RegistryNames == {"article", "thesis"}

RegistryRequests ==
    [content : {Some(b_front_article \o <<"\n">> \o b_abstract),
                Some(b_front_article \o <<"\n">> \o b_abstract \o <<"\n">> \o b_notes)},
     style : {Some("ieee")},
     template_type : {Some(t) : t \in RegistryNames}]

ListFields == {"sections", "required_sections"}

AppendLimit(template_name, field) ==
    Len(InitialTemplates[template_name][field]) + MaxAppended

NextRegistry ==
    \/ \E template_name \in RegistryNames \cup {"poster"} : GetTemplate(template_name)
    \/ pc = "idle" /\ \E data \in RegistryRequests : ProcessTemplate(data)
    \/ \E descriptor \in held, field \in ListFields :
            CallerAppendsToHeld(descriptor, field, <<"n", "o", "t", "e", "s">>,
                                AppendLimit(descriptor.template_name, field))
    \/ \E descriptor \in held : CallerAssignsInHeld(descriptor, 1)
    \/ \E field \in ListFields :
            /\ pc = "returned"
            /\ CallerAppendsToConfig(field, <<"n", "o", "t", "e", "s">>,
                                     AppendLimit(template_type, field))
    \/ CallerAssignsInConfig(1)
    \/ Complete

SpecRegistry == Init /\ [][NextRegistry]_vars

(***************************************************************************)
(* SpecContent: direct calls of process_content for every template type,   *)
(* two styles, and documents of up to MaxContentBlocks blocks: the empty   *)
(* document, text with no header, the front matter of the article          *)
(* template, an unknown section, an abstract over every word ceiling, and  *)
(* bracketed groups with tokens that are no integers beside citations.     *)
(***************************************************************************)
p_plain ==
    <<"s", "e", "e", " ", "[", "1", ",", " ", "a", "]", " ", "a", "n", "d",
      " ", "[", "2", "]", " ", "(", "D", "o", "e", ",", " ", "2", "0", "2",
      "0", ")">>

p_results ==
    <<"#", " ", "R", "e", "s", "u", "l", "t", "s", "\n", "[", "x", "]",
      " ", "[", "3", ",", " ", "4", "]", " ", "[", "5", ",", "b", "]", " ",
      "(", "D", "o", "e", ",", " ", "2", "0", "2", "0", ")", " ", "[", "6">>

MaxContentBlocks == 2

ContentBlocks ==
    {p_plain, p_results, b_front_article, b_notes, h_abstract \o Words(501)}

Styles == {"ieee", "apa"}

ContentCalls ==
    [content : Documents(ContentBlocks, MaxContentBlocks),
     style : Styles,
     template_type : TemplateTypes]

NextContent ==
    \/ pc = "idle" /\ \E call \in ContentCalls :
            ProcessContentCall(call.content, call.style, call.template_type)
    \/ Complete

SpecContent == Init /\ [][NextContent]_vars

(***************************************************************************)
(* SpecRepeated: direct calls of process_content for the article template  *)
(* with documents of up to MaxRepeated blocks: a body with no header of    *)
(* its own, an explicit Introduction header, two headers of one canonical  *)
(* name with bodies, and a header of that name with only a blank line      *)
(* under it.                                                               *)
(***************************************************************************)
r_text ==
    <<"l", "e", "a", "d", " ", "[", "1", "]", " ", "t", "e", "x", "t">>

r_introduction ==
    <<"#", " ", "I", "n", "t", "r", "o", "d", "u", "c", "t", "i", "o", "n",
      "\n", "i", "n", "t", "r", "o", " ", "(", "D", "o", "e", ",", " ",
      "2", "0", "2", "0", ")", " ", "w", "o", "r", "d", "s">>

r_methods ==
    <<"#", "#", " ", "M", "e", "t", "h", "o", "d", "s", "\n", "f", "i",
      "r", "s", "t", " ", "[", "2", "]", " ", "b", "o", "d", "y", " ", "[",
      "3", "]">>

r_methodology ==
    <<"#", " ", "M", "E", "T", "H", "O", "D", "O", "L", "O", "G", "Y",
      "\n", "s", "e", "c", "o", "n", "d", " ", "b", "o", "d", "y">>

r_empty_methods ==
    <<"#", " ", "m", "e", "t", "h", "o", "d", "s", "\n", " ", " ">>

MaxRepeated == 3

RepeatedBlocks ==
    {r_text, r_introduction, r_methods, r_methodology, r_empty_methods}

RepeatedDocuments == Documents(RepeatedBlocks, MaxRepeated)

NextRepeated ==
    \/ pc = "idle" /\ \E text \in RepeatedDocuments :
            ProcessContentCall(text, "ieee", "article")
    \/ Complete

SpecRepeated == Init /\ [][NextRepeated]_vars

(***************************************************************************)
(* SpecFormatting: direct calls of process_content for the article         *)
(* template with documents of up to MaxFormatted blocks: emphasis markers  *)
(* in pairs, nested, alone and unbalanced, beside citations, equations and *)
(* figure and table references.                                            *)
(***************************************************************************)
f_results ==
    <<"#", " ", "R", "e", "s", "u", "l", "t", "s", "\n", "*", "*", "b",
      "o", "l", "d", "*", "*", " ", "[", "1", ",", " ", "2", "]", " ", "a",
      "n", "d", " ", "$", "x", "$", " ", "i", "n", " ", "F", "i", "g", "u",
      "r", "e", " ", "3">>

f_methods ==
    <<"#", " ", "M", "e", "t", "h", "o", "d", "s", "\n", "*", "i", "t",
      "*", " ", "_", "u", "_", " ", "(", "D", "o", "e", ",", " ", "2", "0",
      "2", "0", ")", " ", "T", "a", "b", "l", "e", " ", " ", "4">>

f_discussion ==
    <<"#", " ", "D", "i", "s", "c", "u", "s", "s", "i", "o", "n", "\n",
      "$", "$", "E", "$", "$", " ", "a", "_", "b", "_", "c", " ", "*", "*",
      "x", "*", " ", "[", "5", "]">>

f_text ==
    <<"l", "o", "n", "e", " ", "*", " ", "a", "n", "d", " ", "_", " ", "a",
      "n", "d", " ", "*", "*", " ", "[", "6">>

f_notes ==
    <<"#", " ", "N", "o", "t", "e", "s", "\n", "_", "_", "u", "_", "_",
      " ", "*", "*", "*", "b", "*", "*", "*", " ", "F", "i", "g", "u", "r",
      "e", " ", "1", "2", " ", "$", "p", "$", "$", "q", "$">>

MaxFormatted == 3

FormattedBlocks == {f_results, f_methods, f_discussion, f_text, f_notes}

FormattedDocuments == Documents(FormattedBlocks, MaxFormatted)

NextFormatting ==
    \/ pc = "idle" /\ \E text \in FormattedDocuments :
            ProcessContentCall(text, "ieee", "article")
    \/ Complete

SpecFormatting == Init /\ [][NextFormatting]_vars

(***************************************************************************)
(* SpecExport: up to MaxExports calls of coordinate_export with configs    *)
(* in which each of content, style, format and target_services is there    *)
(* or not: a style the format lists and one it does not, a format that is  *)
(* supported and one that is not, target services that are registered and  *)
(* answer, are registered and do not answer, or are not registered.        *)
(***************************************************************************)
MaxExports == 2

ExportConfigs ==
    [content : {None, Some("text")},
     style : {None, Some("ieee"), Some("web")},
     format : {None, Some("pdf"), Some("rtf")},
     target_services : {None, Some(<<>>), Some(<<"style_assets">>),
                        Some(<<"nowhere", "styles_gallery">>)},
     export_options : {None},
     template_type : {None},
     validation_rules : {None}]

\* The registered services among the targets of a config.
RegisteredTargets(config) ==
    IF config.target_services = None THEN {}
    ELSE {config.target_services[1][i] : i \in 1..Len(config.target_services[1])}
            \cap Keys(service_registry)

NextExport ==
    \/ pc = "idle" /\ \E config \in ExportConfigs :
            \E healthy \in SUBSET RegisteredTargets(config) :
                CoordinateExport(config, healthy, MaxExports)
    \/ Complete

SpecExport == Init /\ [][NextExport]_vars

(***************************************************************************)
(* SpecHistory: up to MaxCoordinations calls of coordinate_export with one *)
(* config that passes validation, enough of them to fill the history, and  *)
(* calls of get_coordination_history with limits from none to more than    *)
(* the history holds.                                                      *)
(***************************************************************************)
MaxCoordinations == 102

HistoryConfig ==
    [content |-> Some("text"), style |-> Some("ieee"), format |-> Some("pdf"),
     target_services |-> Some(<<>>), export_options |-> None,
     template_type |-> None, validation_rules |-> None]

HistoryLimits == {0, 1, 10, 100, 101}

NextHistory ==
    \/ CoordinateExport(HistoryConfig, {}, MaxCoordinations)
    \/ pc = "idle" /\ \E n \in HistoryLimits : GetCoordinationHistory(n)
    \/ Complete

SpecHistory == Init /\ [][NextHistory]_vars

(***************************************************************************)
(* SpecStyles: calls of the style manager in any order, for the name of a  *)
(* default style, a name of no default style and a name no file can have,  *)
(* with a configuration that has a name, a description and a dictionary    *)
(* among its values and one that has neither name nor description, and     *)
(* with base styles that are default, custom or missing.                   *)
(***************************************************************************)
n_mine ==
    <<"m", "i", "n", "e">>

n_nested ==
    <<"a", "/", "b">>

n_missing ==
    <<"n", "o", "n", "e">>

c_full ==
    <<[k |-> "name", v |-> Str(<<"Mine">>)],
      [k |-> "description", v |-> Str(<<"My style">>)],
      [k |-> "font_size", v |-> Str(<<"11pt">>)],
      [k |-> "column_count", v |-> Num(2)],
      [k |-> "page_margins", v |-> Dict(<<[k |-> "top", v |-> Str(<<"1in">>)]>>)]>>

c_bare ==
    <<[k |-> "font_size", v |-> Str(<<"9pt">>)]>>

StyleNames == {n_ieee, n_mine, n_nested}

StyleConfigs == {c_full, c_bare}

BaseStyles == {n_ieee, n_mine, n_missing}

NextStyles ==
    \/ pc = "idle" /\ \E name \in StyleNames, config_data \in StyleConfigs :
            UpdateStyleConfigCall(name, config_data)
    \/ pc = "idle" /\ \E name \in StyleNames, base_style \in BaseStyles :
            CreateCustomStyleCall(name, base_style)
    \/ pc = "idle" /\ \E name \in StyleNames : DeleteCustomStyleCall(name)
    \/ pc = "idle" /\ \E name \in StyleNames \cup {n_nature} : GetStyleConfigCall(name)
    \/ pc = "idle" /\ GetAvailableStylesCall
    \/ Complete

SpecStyles == Init /\ [][NextStyles]_vars

(***************************************************************************)
(* The claims.                                                             *)
(***************************************************************************)
\* Position of a name in a list of distinct names.
IndexOf(x, list) == CHOOSE i \in 1..Len(list) : list[i] = x

\* The messages of a list that start with the given text.
MessagesOf(messages, prefix) ==
    {j \in 1..Len(messages) : messages[j][1] = prefix}

\* C1: process_content called with a template type that is not a key of the
\* registry raises the unsupported-template error before it segments,
\* validates or annotates anything; it returns no result, and the caller gets
\* an error response, never the result of a default template.
C1_UnknownTemplateRejected ==
    (pc \in {"returned", "raised"} /\ template_type \notin DOMAIN templates) =>
        /\ pc = "raised"
        /\ error = Some([type |-> "ValueError",
                         message |-> <<"Unsupported template type: ", template_type>>])
        /\ sections = None
        /\ result = None
        /\ response.status = 500

C1_Witness ==
    /\ pc = "raised"
    /\ template_type = "poster"
    /\ content # <<>>
    /\ error # None

\* C2: validation.valid is false exactly when a required section is absent
\* from the segmented map; missing_required lists exactly the absent required
\* names, errors has one entry per absent name, and with every required
\* section present and none unexpected valid is true and errors is empty
\* whatever the word counts.
C2_RequiredSections ==
    pc = "returned" =>
        LET v        == result[1].validation
            required == templates[template_type].required_sections
            absent   == {i \in 1..Len(required) : required[i] \notin Keys(sections[1])}
        IN  /\ (v.valid = FALSE) <=> (absent # {})
            /\ Len(v.missing_required) = Cardinality(absent)
            /\ \A i \in absent : InList(required[i], v.missing_required)
            /\ \A j \in 1..Len(v.missing_required) :
                    \E i \in absent : required[i] = v.missing_required[j]
            /\ Len(v.errors) = Cardinality(absent)
            /\ \A j \in 1..Len(v.errors) :
                    v.errors[j] = <<"Missing required section: ", v.missing_required[j]>>
            /\ (absent = {} /\ v.unexpected_sections = <<>>) =>
                    (v.valid /\ v.errors = <<>>)

\* A valid document whose abstract is over the ceiling.
C2_Witness ==
    /\ pc = "returned"
    /\ result[1].validation.valid
    /\ result[1].validation.unexpected_sections = <<>>
    /\ result[1].validation.warnings # <<>>

\* C3: an abstract of more words than max_abstract_words adds exactly one
\* warning, which states the actual and the maximum count, adds no error and
\* leaves valid as it is for the same sections with a short abstract; an
\* abstract at or below the ceiling adds no such warning.
C3_AbstractOverage ==
    pc = "returned" =>
        LET v       == result[1].validation
            secs    == sections[1]
            config  == templates[template_type]
            words   == WordCount(DictGet(secs, s_abstract, <<>>))
            over    == s_abstract \in Keys(secs) /\ words > config.max_abstract_words
            about   == MessagesOf(v.warnings, "Abstract exceeds maximum word count: ")
            without == ValidateSections(DictSet(secs, s_abstract, <<"w">>), config)
        IN  /\ Cardinality(about) = IF over THEN 1 ELSE 0
            /\ \A j \in about :
                    v.warnings[j] = <<"Abstract exceeds maximum word count: ",
                                      words, "/", config.max_abstract_words>>
            /\ (s_abstract \in Keys(secs)) =>
                    /\ v.errors = without.errors
                    /\ v.valid = without.valid
                    /\ Len(v.warnings) = Len(without.warnings) + Cardinality(about)

\* A valid document whose abstract is one word over the ceiling.
C3_Witness ==
    /\ pc = "returned"
    /\ s_abstract \in Keys(sections[1])
    /\ WordCount(DictGet(sections[1], s_abstract, <<>>))
            = templates[template_type].max_abstract_words + 1
    /\ result[1].validation.valid
    /\ Len(result[1].validation.warnings) = 1

\* C4: every section of the map that the template does not declare is in
\* unexpected_sections and has one warning; unexpected_sections holds no
\* declared name; valid and errors are what they are for the map without
\* the undeclared sections.
C4_UnexpectedSections ==
    pc = "returned" =>
        LET v          == result[1].validation
            secs       == sections[1]
            config     == templates[template_type]
            undeclared == {n \in Keys(secs) : ~InList(n, config.sections)}
            Declared(entry) == InList(entry.k, config.sections)
            without    == ValidateSections(SelectSeq(secs, Declared), config)
            about      == MessagesOf(v.warnings, "Unexpected section: ")
        IN  /\ {v.unexpected_sections[j] : j \in 1..Len(v.unexpected_sections)} = undeclared
            /\ Len(v.unexpected_sections) = Cardinality(undeclared)
            /\ Cardinality(about) = Cardinality(undeclared)
            /\ \A n \in undeclared :
                    \E j \in about : v.warnings[j] = <<"Unexpected section: ", n>>
            /\ \A j \in 1..Len(v.unexpected_sections) :
                    ~InList(v.unexpected_sections[j], config.sections)
            /\ v.valid = without.valid
            /\ v.errors = without.errors

\* A valid document with an undeclared section beside declared ones.
C4_Witness ==
    /\ pc = "returned"
    /\ result[1].validation.valid
    /\ result[1].validation.unexpected_sections # <<>>
    /\ Len(sections[1]) > Len(result[1].validation.unexpected_sections)

\* C9: the table of contents lists the declared sections of the template
\* that are in the document, each once, in the order the template declares
\* them whatever their order in the document, and no undeclared section.
C9_TableOfContents ==
    pc = "returned" =>
        LET toc      == result[1].table_of_contents
            declared == templates[template_type].sections
            present  == Keys(result[1].sections)
        IN  /\ \A j \in 1..Len(toc) :
                    InList(toc[j].section, declared) /\ toc[j].section \in present
            /\ \A i \in 1..Len(declared) :
                    declared[i] \in present =>
                        Cardinality({j \in 1..Len(toc) : toc[j].section = declared[i]}) = 1
            /\ \A j \in 1..Len(toc), k \in 1..Len(toc) :
                    j < k => IndexOf(toc[j].section, declared)
                                < IndexOf(toc[k].section, declared)

\* A document with an undeclared section and with two declared sections in
\* the reverse of the declared order.
C9_Witness ==
    /\ pc = "returned"
    /\ \E n \in Keys(sections[1]) : ~InList(n, templates[template_type].sections)
    /\ \E i \in 1..Len(sections[1]), j \in 1..Len(sections[1]) :
            /\ i < j
            /\ InList(sections[1][i].k, templates[template_type].sections)
            /\ InList(sections[1][j].k, templates[template_type].sections)
            /\ IndexOf(sections[1][j].k, templates[template_type].sections)
                    < IndexOf(sections[1][i].k, templates[template_type].sections)

\* A line of the input is a header line when its first character after
\* leading whitespace is the header marker.
IsHeaderLine(line) == StartsWith(Strip(line), "#")

\* The text of a header line: markers and surrounding whitespace removed,
\* in lower case.
HeaderText(line) == Lower(Strip(LStrip(Strip(line), {"#"})))

NonBlank(line) == Strip(line) # <<>>

\* C5 as stated: an input with no header line, the empty input and inputs
\* of blank lines included, gives exactly one section, named introduction,
\* whose body is the input with its blank lines removed.
C5_ImplicitIntroductionAlways ==
    (pc = "parsed" /\ \A i \in 1..Len(Split(content, "\n")) :
                            ~IsHeaderLine(Split(content, "\n")[i])) =>
        /\ Len(sections[1]) = 1
        /\ sections[1][1].k = s_introduction
        /\ sections[1][1].v = Join(SelectSeq(Split(content, "\n"), NonBlank), "\n")

\* C5, amended: an input with no header line gives one section, named
\* introduction, when it has a non-blank line, and the body is the
\* non-blank lines, each without its leading and trailing whitespace,
\* joined by newlines; with no non-blank line the map is empty.
C5_ImplicitIntroduction ==
    (pc = "parsed" /\ \A i \in 1..Len(Split(content, "\n")) :
                            ~IsHeaderLine(Split(content, "\n")[i])) =>
        LET kept    == SelectSeq(Split(content, "\n"), NonBlank)
            trimmed == [i \in 1..Len(kept) |-> Strip(kept[i])]
        IN  IF kept = <<>>
            THEN sections[1] = <<>>
            ELSE sections[1] = <<[k |-> s_introduction, v |-> Join(trimmed, "\n")]>>

\* An input of a blank line, a line with whitespace around its text and
\* another line, and no header.
C5_Witness ==
    /\ pc = "parsed"
    /\ \A i \in 1..Len(Split(content, "\n")) : ~IsHeaderLine(Split(content, "\n")[i])
    /\ \E i \in 1..Len(Split(content, "\n")) : ~NonBlank(Split(content, "\n")[i])
    /\ \E i \in 1..Len(Split(content, "\n")) :
            /\ NonBlank(Split(content, "\n")[i])
            /\ Strip(Split(content, "\n")[i]) # Split(content, "\n")[i]
    /\ Len(sections[1]) = 1
    /\ Len(Split(sections[1][1].v, "\n")) = 2

\* str.upper()
Upper(s) == [i \in 1..Len(s) |-> UpperChar(s[i])]

\* Header lines for a key of the synonym table: one or two markers and the
\* key in lower case, in upper case and capitalised.
HeaderSpellings(key) ==
    {marks \o <<" ">> \o text :
        marks \in {<<"#">>, <<"#", "#">>},
        text \in {key, Upper(key), Title(key)}}

\* The header lines of every key the synonym table maps to the name.
HeaderVariants(canonical) ==
    UNION {HeaderSpellings(normalization_map[i].k) :
            i \in {j \in 1..Len(normalization_map) :
                        normalization_map[j].v = canonical}}

\* C6: whichever header of the synonym table a document uses for a
\* canonical name, in any letter case and with any number of markers, the
\* section map is the same: the same keys with the same bodies.
C6_SynonymHeaders ==
    pc = "parsed" =>
        \A i \in 1..Len(Split(content, "\n")) :
            (/\ IsHeaderLine(Split(content, "\n")[i])
             /\ HeaderText(Split(content, "\n")[i]) \in Keys(normalization_map)) =>
                \A h \in HeaderVariants(
                            NormalizeSectionName(HeaderText(Split(content, "\n")[i]))) :
                    ParseContentSections(
                        Join([Split(content, "\n") EXCEPT ![i] = h], "\n")) = sections[1]

\* A document with the header "Methods", in some spelling, and a body
\* under it: the section is stored as methodology.
C6_Witness ==
    /\ pc = "parsed"
    /\ \E i \in 1..Len(Split(content, "\n")) :
            /\ IsHeaderLine(Split(content, "\n")[i])
            /\ HeaderText(Split(content, "\n")[i]) = s_methods
    /\ s_methodology \in Keys(sections[1])
    /\ s_methods \notin Keys(sections[1])

\* C7: normalising a normalised name changes nothing, and every name the
\* synonym table gives is a fixed point of the normaliser.
C7_Idempotent ==
    /\ pc = "normalized" => NormalizeSectionName(section_name) = section_name
    /\ \A i \in 1..Len(normalization_map) :
            NormalizeSectionName(normalization_map[i].v) = normalization_map[i].v

\* A header text outside the table that the fallback changes.
C7_Witness ==
    /\ pc = "normalized"
    /\ header_text \notin Keys(normalization_map)
    /\ section_name # header_text
    /\ NormalizeSectionName(section_name) = section_name

\* s with each maximal run of spaces and tabs replaced by one underscore.
RECURSIVE CollapseFrom(_, _)
CollapseFrom(s, i) ==
    IF i > Len(s) THEN <<>>
    ELSE IF s[i] \in {" ", "\t"}
         THEN (IF i > 1 /\ s[i - 1] \in {" ", "\t"} THEN <<>> ELSE <<"_">>)
                \o CollapseFrom(s, i + 1)
         ELSE <<s[i]>> \o CollapseFrom(s, i + 1)

\* C8: for a header text that is not a key of the synonym table, the
\* section key is the text with each internal run of spaces and tabs
\* replaced by exactly one underscore, so it holds no whitespace.
C8_WhitespaceRuns ==
    (/\ pc = "normalized"
     /\ header_text \notin Keys(normalization_map)
     /\ Strip(header_text) = header_text) =>
        /\ section_name = CollapseFrom(header_text, 1)
        /\ \A i \in 1..Len(section_name) : section_name[i] \notin Whitespace

IsNumeric(citation) == citation.type = "numeric"

\* The numeric citations of the sections named in order, section after
\* section, each section's in the order of its text.
RECURSIVE GroupsIn(_, _, _)
GroupsIn(order, formatted, i) ==
    IF i > Len(order) THEN <<>>
    ELSE SelectSeq(DictGet(formatted, order[i], [citations |-> <<>>]).citations,
                   IsNumeric)
            \o GroupsIn(order, formatted, i + 1)

NumbersOf(group) == {group.numbers[j] : j \in 1..Len(group.numbers)}

\* The last of the groups that holds the number.
LastWith(groups, n) ==
    groups[Max({i \in 1..Len(groups) : n \in NumbersOf(groups[i])})]

\* The numeric entries of the summary are, for each number cited, the last
\* of the groups that holds it: one entry per number.
LastWriteWins(groups, summary) ==
    LET numbers == UNION {NumbersOf(groups[i]) : i \in 1..Len(groups)}
        entries == SelectSeq(summary, IsNumeric)
    IN  /\ Len(entries) = Cardinality(numbers)
        /\ \A n \in numbers :
                Cardinality({j \in 1..Len(entries) : entries[j] = LastWith(groups, n)})
                    = Cardinality({m \in numbers :
                                    LastWith(groups, m) = LastWith(groups, n)})

\* The blocks of a document in the order of the document: the name each
\* header gives and the non-blank lines under it.
RECURSIVE BlocksFrom(_, _, _, _)
BlocksFrom(lines, i, name, body) ==
    IF i > Len(lines) THEN <<[name |-> name, body |-> body]>>
    ELSE IF IsHeaderLine(lines[i])
         THEN <<[name |-> name, body |-> body]>>
                \o BlocksFrom(lines, i + 1,
                              NormalizeSectionName(HeaderText(lines[i])), <<>>)
         ELSE BlocksFrom(lines, i + 1, name,
                         IF NonBlank(lines[i]) THEN Append(body, lines[i]) ELSE body)

\* The names of the sections in the order in which their bodies stand in
\* the document: of several blocks of one name the last with a body counts.
SectionsInDocumentOrder(text) ==
    LET blocks == BlocksFrom(Split(text, "\n"), 1, s_introduction, <<>>)
        Kept(i) == /\ blocks[i].body # <<>>
                   /\ \A j \in (i + 1)..Len(blocks) :
                        blocks[j].name = blocks[i].name => blocks[j].body = <<>>
        RECURSIVE NamesFrom(_)
        NamesFrom(i) ==
            IF i > Len(blocks) THEN <<>>
            ELSE (IF Kept(i) THEN <<blocks[i].name>> ELSE <<>>) \o NamesFrom(i + 1)
    IN  NamesFrom(1)

\* The citations of all sections, section after section in the order of
\* the section map.
RECURSIVE CitationsOfSections(_, _)
CitationsOfSections(formatted, i) ==
    IF i > Len(formatted) THEN <<>>
    ELSE formatted[i].v.citations \o CitationsOfSections(formatted, i + 1)

\* C10 as stated: a group of k distinct numbers gives one summary entry per
\* number, the entry of a number is the group that holds it latest in the
\* document, and total_citations is the number of citations matched in all
\* sections.
C10_LastInDocumentWins ==
    pc = "returned" =>
        /\ LastWriteWins(GroupsIn(SectionsInDocumentOrder(content),
                                  result[1].sections, 1),
                         result[1].citations.citations)
        /\ result[1].citations.total_citations
                = Len(CitationsOfSections(result[1].sections, 1))

\* C10, amended: a group of k distinct numbers gives one summary entry per
\* number, the entry of a number is the group that holds it latest in the
\* order of the section map (the sections in the order in which their
\* names first get a body in the document, the groups of a section in the
\* order of its text), and total_citations is the number of citations
\* matched in all sections.
C10_LastInSectionOrderWins ==
    pc = "returned" =>
        /\ LastWriteWins(GroupsIn(KeyList(result[1].sections),
                                  result[1].sections, 1),
                         result[1].citations.citations)
        /\ result[1].citations.total_citations
                = Len(CitationsOfSections(result[1].sections, 1))

\* A document with a group of two distinct numbers, a number held by
\* groups of two sections, and more citations than summary entries.
C10_Witness ==
    /\ pc = "returned"
    /\ \E i \in 1..Len(result[1].sections) :
        \E c \in 1..Len(result[1].sections[i].v.citations) :
            /\ IsNumeric(result[1].sections[i].v.citations[c])
            /\ Cardinality(NumbersOf(result[1].sections[i].v.citations[c])) = 2
    /\ \E i \in 1..Len(result[1].sections), j \in 1..Len(result[1].sections) :
        /\ i < j
        /\ \E c \in 1..Len(result[1].sections[i].v.citations),
              d \in 1..Len(result[1].sections[j].v.citations) :
            /\ IsNumeric(result[1].sections[i].v.citations[c])
            /\ IsNumeric(result[1].sections[j].v.citations[d])
            /\ NumbersOf(result[1].sections[i].v.citations[c])
                 \cap NumbersOf(result[1].sections[j].v.citations[d]) # {}
    /\ result[1].citations.total_citations > Len(result[1].citations.citations)

IsAuthorYear(citation) == citation.type = "author_year"

\* C11: unique_citations is the number of distinct reference numbers plus
\* the number of distinct (author, year) pairs cited in the sections, the
\* summary list has that many entries, one author and year entry for each
\* pair and one numeric entry for each number: a number and a pair never
\* share an entry, and two pairs share one only when they are equal.
C11_UniqueCitations ==
    pc = "returned" =>
        LET all     == CitationsOfSections(result[1].sections, 1)
            numeric == SelectSeq(all, IsNumeric)
            named   == SelectSeq(all, IsAuthorYear)
            numbers == UNION {NumbersOf(numeric[i]) : i \in 1..Len(numeric)}
            pairs   == {<<named[i].author, named[i].year>> : i \in 1..Len(named)}
            info    == result[1].citations
        IN  /\ info.unique_citations = Cardinality(numbers) + Cardinality(pairs)
            /\ Len(info.citations) = info.unique_citations
            /\ Len(SelectSeq(info.citations, IsNumeric)) = Cardinality(numbers)
            /\ Len(SelectSeq(info.citations, IsAuthorYear)) = Cardinality(pairs)
            /\ \A p \in pairs :
                    Cardinality({j \in 1..Len(info.citations) :
                        /\ IsAuthorYear(info.citations[j])
                        /\ info.citations[j].author = p[1]
                        /\ info.citations[j].year = p[2]}) = 1

\* A document that cites one author in two years, two authors in one year,
\* one pair twice, and a number equal to a cited year.
C11_Witness ==
    /\ pc = "returned"
    /\ LET named == SelectSeq(CitationsOfSections(result[1].sections, 1), IsAuthorYear)
       IN  /\ \E i \in 1..Len(named), j \in 1..Len(named) :
                    named[i].author = named[j].author /\ named[i].year # named[j].year
           /\ \E i \in 1..Len(named), j \in 1..Len(named) :
                    named[i].author # named[j].author /\ named[i].year = named[j].year
           /\ \E i \in 1..Len(named), j \in 1..Len(named) :
                    i < j /\ named[i].author = named[j].author
                          /\ named[i].year = named[j].year
    /\ \E j \in 1..Len(result[1].citations.citations) :
            /\ IsNumeric(result[1].citations.citations[j])
            /\ 2020 \in NumbersOf(result[1].citations.citations[j])

\* The equations of one type in a list of equations, in the order of the list.
OfType(equations, type) ==
    LET HasType(e) == e.type = type
    IN  SelectSeq(equations, HasType)

\* The ids of the list are  eq_<type>_1 .. eq_<type>_n  in this order.
NumberedFromOne(equations, type) ==
    \A j \in 1..Len(equations) : equations[j].id = <<"eq_", type, "_", j>>

\* C12: in every section the inline equations have the ids eq_inline_1 to
\* eq_inline_n and the display equations the ids eq_display_1 to
\* eq_display_m, in the order of occurrence, with no gap and no repeat;
\* every section starts again at 1.
C12_EquationIds ==
    pc = "returned" =>
        \A i \in 1..Len(result[1].sections) :
            LET equations == result[1].sections[i].v.equations
                inline    == OfType(equations, "inline")
                display   == OfType(equations, "display")
            IN  /\ Len(inline) + Len(display) = Len(equations)
                /\ NumberedFromOne(inline, "inline")
                /\ NumberedFromOne(display, "display")
                /\ \A j \in 1..Len(inline), k \in 1..Len(inline) :
                        j < k => inline[j].position[1] < inline[k].position[1]
                /\ \A j \in 1..Len(display), k \in 1..Len(display) :
                        j < k => display[j].position[1] < display[k].position[1]

\* Two sections with an inline equation each, both with the id
\* eq_inline_1, one of them with a second inline equation and the
\* document with two display equations in one section.
C12_Witness ==
    /\ pc = "returned"
    /\ \E i \in 1..Len(result[1].sections), k \in 1..Len(result[1].sections) :
        /\ i < k
        /\ Len(OfType(result[1].sections[i].v.equations, "inline")) >= 1
        /\ Len(OfType(result[1].sections[k].v.equations, "inline")) >= 2
        /\ OfType(result[1].sections[i].v.equations, "inline")[1].id
             = OfType(result[1].sections[k].v.equations, "inline")[1].id
    /\ \E i \in 1..Len(result[1].sections) :
        Len(OfType(result[1].sections[i].v.equations, "display")) = 2

\* The equation occurrences of a text from left to right: at a marker, a
\* span between double markers if there is one, else a span between single
\* markers if there is one; the search goes on after the span.
RECURSIVE OccurrencesFrom(_, _)
OccurrencesFrom(s, from) ==
    LET starts == {i \in from..Len(s) :
                    s[i] = "$" /\ (MatchEnd("display", s, i) # 0
                                    \/ MatchEnd("inline", s, i) # 0)}
    IN  IF starts = {} THEN <<>>
        ELSE IF MatchEnd("display", s, Min(starts)) # 0
             THEN <<"display">>
                    \o OccurrencesFrom(s, MatchEnd("display", s, Min(starts)) + 1)
             ELSE <<"inline">>
                    \o OccurrencesFrom(s, MatchEnd("inline", s, Min(starts)) + 1)

\* C19: every equation occurrence of a section gives exactly one entry, of
\* type inline for a span between single markers and of type display for
\* a span between double markers, so the section has as many entries as
\* occurrences, of each type and in all.
C19_OneEntryPerOccurrence ==
    pc = "returned" =>
        \A i \in 1..Len(result[1].sections) :
            LET equations   == result[1].sections[i].v.equations
                occurrences == OccurrencesFrom(result[1].sections[i].v.content, 1)
                IsInline(t)  == t = "inline"
                IsDisplay(t) == t = "display"
            IN  /\ Len(equations) = Len(occurrences)
                /\ Len(OfType(equations, "inline"))
                        = Len(SelectSeq(occurrences, IsInline))
                /\ Len(OfType(equations, "display"))
                        = Len(SelectSeq(occurrences, IsDisplay))

\* The document of the end-to-end example: the sections Title, Abstract
\* and Introduction, the last with the citations [1] and (Smith, 2020).
ExampleDocument == Join(<<b_title, b_abstract, b_introduction>>, "\n")

\* C13: the example document under the template article gives exactly the
\* sections title, abstract and introduction, valid false with
\* missing_required ['authors'] and no unexpected section, and under
\* introduction one numeric citation of the numbers [1] and one author
\* and year citation of Smith, 2020.
C13_EndToEndExample ==
    (pc = "returned" /\ content = ExampleDocument /\ template_type = "article") =>
        LET r         == result[1]
            citations == DictGet(r.sections, s_introduction, None).citations
            numeric   == SelectSeq(citations, IsNumeric)
            named     == SelectSeq(citations, IsAuthorYear)
        IN  /\ KeyList(r.sections) = <<s_title, s_abstract, s_introduction>>
            /\ r.validation.valid = FALSE
            /\ r.validation.missing_required = <<s_authors>>
            /\ r.validation.unexpected_sections = <<>>
            /\ Len(citations) = 2
            /\ Len(numeric) = 1
            /\ numeric[1].numbers = <<1>>
            /\ Len(named) = 1
            /\ named[1].author = <<"S", "m", "i", "t", "h">>
            /\ named[1].year = 2020
            /\ DictGet(r.sections, s_title, None).citations = <<>>
            /\ DictGet(r.sections, s_abstract, None).citations = <<>>

\* The example document has been processed under the template article.
C13_Witness ==
    /\ pc = "returned"
    /\ content = ExampleDocument
    /\ template_type = "article"
    /\ response.status = 200
    /\ Len(result[1].sections) = 3

\* C14: whatever the callers do with the descriptors and results they
\* were handed, every descriptor of the registry has its initial value,
\* and a request is validated against the initial sections and
\* required_sections of its template.
C14_RegistryUnchanged ==
    /\ templates = InitialTemplates
    /\ pc = "returned" =>
            /\ result[1].validation.missing_required
                    = MissingRequired(sections[1], InitialTemplates[template_type])
            /\ result[1].validation.unexpected_sections
                    = UnexpectedSections(sections[1], InitialTemplates[template_type])

ResultKeys ==
    {"template_type", "style_name", "sections", "table_of_contents",
     "citations", "validation", "statistics", "metadata"}

\* The tokens of the bracketed group that opens at index i of s and closes
\* at the next closing bracket.
GroupTokens(s, i) == Split(SubSeq(s, i + 1, FindChar(s, i + 1, "]") - 1), ",")

AllDigits(t) == t # <<>> /\ \A j \in 1..Len(t) : IsDigit(t[j])

\* A closed group with a token that is no integer.
NonIntegerGroup(s, i) ==
    /\ FindChar(s, i + 1, "]") <= Len(s)
    /\ \E j \in 1..Len(GroupTokens(s, i)) : ~AllDigits(Strip(GroupTokens(s, i)[j]))

\* A closed group of integers separated by commas, with whitespace after a
\* comma at most.
IntegerGroup(s, i) ==
    /\ FindChar(s, i + 1, "]") <= Len(s)
    /\ AllDigits(GroupTokens(s, i)[1])
    /\ \A j \in 2..Len(GroupTokens(s, i)) :
            AllDigits(LStrip(GroupTokens(s, i)[j], Whitespace))

s_Doe_2020 == <<"(", "D", "o", "e", ",", " ", "2", "0", "2", "0", ")">>

C16_StylePassThrough ==
    pc = "returned" =>
        /\ result[1].style_name = style_name
        /\ result[1].citations.citation_style = style_name
        /\ \A other \in Styles :
            [ProcessContent(content, other, template_type, templates[template_type])
                EXCEPT !.style_name = style_name,
                       !.citations.citation_style = style_name] = result[1]
        /\ \A other \in Styles :
            /\ ProcessContent(content, other, template_type,
                              templates[template_type]).style_name = other
            /\ ProcessContent(content, other, template_type,
                              templates[template_type]).citations.citation_style = other

\* A call with the second style for a document with citations.
C16_Witness ==
    /\ pc = "returned"
    /\ style_name = "apa"
    /\ result[1].citations.citation_style = "apa"
    /\ result[1].citations.total_citations > 0
    /\ Len(result[1].sections) = 2

\* The orders in which n sections can stand.
Orders(n) == {p \in [1..n -> 1..n] : \A i \in 1..n, j \in 1..n : p[i] = p[j] => i = j}

\* C17: the sections of the document in any other order give the same
\* valid, errors and missing_required and the same set of
\* unexpected_sections, and the report is the same in every field with
\* the section_order flag of the template set and unset.
C17_OrderIndependent ==
    pc = "returned" =>
        /\ \A p \in Orders(Len(sections[1])) :
            LET other == ValidateSections([i \in 1..Len(sections[1]) |-> sections[1][p[i]]],
                                          templates[template_type])
            IN  /\ other.valid = result[1].validation.valid
                /\ other.errors = result[1].validation.errors
                /\ other.missing_required = result[1].validation.missing_required
                /\ {other.unexpected_sections[i] :
                        i \in 1..Len(other.unexpected_sections)}
                     = {result[1].validation.unexpected_sections[i] :
                        i \in 1..Len(result[1].validation.unexpected_sections)}
        /\ \A flag \in BOOLEAN :
            ValidateSections(sections[1],
                             [templates[template_type] EXCEPT !.section_order = flag])
                = result[1].validation

\* A document for a template with the flag set whose declared sections
\* stand in the reverse of the declared order, beside an undeclared one.
C17_Witness ==
    /\ pc = "returned"
    /\ templates[template_type].section_order
    /\ Len(sections[1]) = 3
    /\ result[1].validation.unexpected_sections # <<>>
    /\ \E i \in 1..Len(sections[1]), j \in 1..Len(sections[1]) :
            /\ i < j
            /\ InList(sections[1][i].k, templates[template_type].sections)
            /\ InList(sections[1][j].k, templates[template_type].sections)
            /\ IndexOf(sections[1][j].k, templates[template_type].sections)
                    < IndexOf(sections[1][i].k, templates[template_type].sections)

\* The sum of f over the indices 1..n.
RECURSIVE Total(_, _)
Total(f, n) == IF n = 0 THEN 0 ELSE f[n] + Total(f, n - 1)

\* C18: total_words is the sum of the word counts of the sections and the
\* sum of the values of section_breakdown, section_breakdown has the keys
\* of sections, total_sections is the number of sections, total_equations
\* and total_references are the summed lengths of the sections' lists,
\* and statistics.total_citations equals citations.total_citations.
C18_Statistics ==
    pc = "returned" =>
        LET secs == result[1].sections
            st   == result[1].statistics
            n    == Len(secs)
        IN  /\ st.total_words = Total([i \in 1..n |-> secs[i].v.word_count], n)
            /\ st.total_words
                = Total([i \in 1..Len(st.section_breakdown) |->
                            st.section_breakdown[i].v], Len(st.section_breakdown))
            /\ Len(st.section_breakdown) = n
            /\ Keys(st.section_breakdown) = Keys(secs)
            /\ \A i \in 1..n :
                    DictGet(st.section_breakdown, secs[i].k, -1) = secs[i].v.word_count
            /\ st.total_sections = n
            /\ st.total_equations = Total([i \in 1..n |-> Len(secs[i].v.equations)], n)
            /\ st.total_references = Total([i \in 1..n |-> Len(secs[i].v.references)], n)
            /\ st.total_citations = result[1].citations.total_citations

\* A document of three sections, one with several equations, with
\* references in two sections and a citation.
C18_Witness ==
    /\ pc = "returned"
    /\ Len(result[1].sections) = 3
    /\ \E i \in 1..3 : Len(result[1].sections[i].v.equations) >= 3
    /\ Cardinality({i \in 1..3 : result[1].sections[i].v.references # <<>>}) = 2
    /\ result[1].statistics.total_citations = 1
    /\ result[1].statistics.total_words > 10

\* The names of the blocks of a document that have a non-blank line.
NamesWithBody(text) ==
    LET blocks == BlocksFrom(Split(text, "\n"), 1, s_introduction, <<>>)
    IN  {blocks[i].name : i \in {j \in 1..Len(blocks) : blocks[j].body # <<>>}}

\* C20: every body of the segmented map is a non-empty string without
\* leading or trailing whitespace, and the map has an entry only for a
\* name with a non-blank line under one of its headers: a header followed
\* by another header, by blank lines only or by the end gives no entry.
C20_NoEmptySection ==
    pc = "parsed" =>
        /\ \A i \in 1..Len(sections[1]) :
                /\ sections[1][i].v # <<>>
                /\ Strip(sections[1][i].v) = sections[1][i].v
        /\ Keys(sections[1]) = NamesWithBody(content)

\* A document with a section and with a header that has only a blank line
\* or nothing or another header after it.
C20_Witness ==
    /\ pc = "parsed"
    /\ sections[1] # <<>>
    /\ \E i \in 1..Len(Split(content, "\n")) :
            /\ IsHeaderLine(Split(content, "\n")[i])
            /\ NormalizeSectionName(HeaderText(Split(content, "\n")[i]))
                    \notin Keys(sections[1])
            /\ i < Len(Split(content, "\n")) =>
                    ~NonBlank(Split(content, "\n")[i + 1])

\* The lines of a body, each without its leading and trailing whitespace.
StrippedLines(body) == [i \in 1..Len(body) |-> Strip(body[i])]

\* The non-blank lines of the last block of a name that has any.
LastBodyOf(blocks, name) ==
    blocks[Max({i \in 1..Len(blocks) :
                    blocks[i].name = name /\ blocks[i].body # <<>>})].body

\* C21 as stated: the body stored for a section is the non-blank lines
\* that are no headers between its header (or the start of the input) and
\* the next header or the end, as they stand in the input, in their order,
\* joined by single newlines and trimmed as a whole.
C21_BodyIsTheLines ==
    pc = "parsed" =>
        /\ Keys(sections[1]) = NamesWithBody(content)
        /\ \A i \in 1..Len(sections[1]) :
                sections[1][i].v
                    = Strip(Join(LastBodyOf(BlocksFrom(Split(content, "\n"), 1,
                                                       s_introduction, <<>>),
                                            sections[1][i].k), "\n"))

\* C21, amended: the body stored for a section is the non-blank lines that
\* are no headers between its header (or the start of the input) and the
\* next header or the end, each without its leading and trailing
\* whitespace, in their order, joined by single newlines; no blank line is
\* part of a body and no such line is missing.
C21_BodyIsTheStrippedLines ==
    pc = "parsed" =>
        /\ Keys(sections[1]) = NamesWithBody(content)
        /\ \A i \in 1..Len(sections[1]) :
                sections[1][i].v
                    = Join(StrippedLines(
                              LastBodyOf(BlocksFrom(Split(content, "\n"), 1,
                                                    s_introduction, <<>>),
                                         sections[1][i].k)), "\n")

\* A section of two lines with a blank line between them, the second line
\* with whitespace around it.
C21_Witness ==
    /\ pc = "parsed"
    /\ Split(content, "\n") = <<l_text, l_blank, l_indented>>
    /\ Len(sections[1]) = 1

\* The body the last block of a name with non-blank lines gives.
LastBodyText(text, name) ==
    Join(StrippedLines(LastBodyOf(BlocksFrom(Split(text, "\n"), 1,
                                             s_introduction, <<>>), name)),
         "\n")

\* The names of a document with a body, in the order of the given map.
NamesIn(formatted) == [i \in 1..Len(formatted) |-> formatted[i].k]

\* C22: when several headers of a document give one section name (the
\* implicit introduction and an explicit Introduction header among them),
\* the result has one entry for the name, its content is the body of the
\* last occurrence with a body, and the word counts, the citation counts
\* and the statistics count that body only.
C22_LastOccurrenceOnly ==
    pc = "returned" =>
        /\ Keys(result[1].sections) = NamesWithBody(content)
        /\ Len(result[1].sections) = Cardinality(NamesWithBody(content))
        /\ \A i \in 1..Len(result[1].sections) :
            /\ result[1].sections[i].v.content
                    = LastBodyText(content, result[1].sections[i].k)
            /\ result[1].sections[i].v.word_count
                    = WordCount(LastBodyText(content, result[1].sections[i].k))
            /\ result[1].sections[i].v.citations
                    = ExtractCitations(
                        LastBodyText(content, result[1].sections[i].k))
        /\ result[1].statistics.total_sections
                = Cardinality(NamesWithBody(content))
        /\ result[1].statistics.total_words
                = Sum([i \in 1..Len(result[1].sections) |->
                        WordCount(LastBodyText(content,
                                               result[1].sections[i].k))], 1)
        /\ result[1].statistics.total_citations
                = Sum([i \in 1..Len(result[1].sections) |->
                        Len(ExtractCitations(
                              LastBodyText(content,
                                           result[1].sections[i].k)))], 1)
        /\ result[1].citations.total_citations
                = result[1].statistics.total_citations

\* A document in which two blocks of one name have a body (text before an
\* explicit Introduction header, or two headers of the name methodology)
\* and the bodies differ.
C22_Witness ==
    /\ pc = "returned"
    /\ \E i \in 1..Len(result[1].sections) :
        \E b \in 1..Len(BlocksFrom(Split(content, "\n"), 1, s_introduction, <<>>)) :
            /\ BlocksFrom(Split(content, "\n"), 1, s_introduction, <<>>)[b].name
                    = result[1].sections[i].k
            /\ BlocksFrom(Split(content, "\n"), 1, s_introduction, <<>>)[b].body
                    \notin {<<>>,
                            LastBodyOf(BlocksFrom(Split(content, "\n"), 1,
                                                  s_introduction, <<>>),
                                       result[1].sections[i].k)}

\* A span that lies in a text and is not empty.
SpanIn(position, text) ==
    /\ 0 <= position[1]
    /\ position[1] < position[2]
    /\ position[2] <= Len(text)

\* The part of a text a span covers.
Covered(text, position) == SubSeq(text, position[1] + 1, position[2])

\* C23: the span of every citation, equation and reference of a section
\* is a non-empty span of the section's formatted content, the text of a
\* citation or reference is the content the span covers, the formatted
\* content is the segmented body, and the formatting pass applied to its
\* own output changes nothing.
C23_SpansInFormattedContent ==
    pc = "returned" =>
        /\ KeyList(result[1].sections) = KeyList(sections[1])
        /\ \A i \in 1..Len(result[1].sections) :
            /\ \A c \in 1..Len(result[1].sections[i].v.citations) :
                /\ SpanIn(result[1].sections[i].v.citations[c].position,
                          result[1].sections[i].v.content)
                /\ result[1].sections[i].v.citations[c].text
                    = Covered(result[1].sections[i].v.content,
                              result[1].sections[i].v.citations[c].position)
            /\ \A e \in 1..Len(result[1].sections[i].v.equations) :
                SpanIn(result[1].sections[i].v.equations[e].position,
                       result[1].sections[i].v.content)
            /\ \A r \in 1..Len(result[1].sections[i].v.references) :
                /\ SpanIn(result[1].sections[i].v.references[r].position,
                          result[1].sections[i].v.content)
                /\ result[1].sections[i].v.references[r].text
                    = Covered(result[1].sections[i].v.content,
                              result[1].sections[i].v.references[r].position)
            /\ result[1].sections[i].v.content = sections[1][i].v
            /\ ApplyTextFormatting(ApplyTextFormatting(sections[1][i].v))
                    = ApplyTextFormatting(sections[1][i].v)

\* A section with emphasis markers, a citation, an equation and a
\* reference that do not start at the start of the content.
C23_Witness ==
    /\ pc = "returned"
    /\ \E i \in 1..Len(result[1].sections) :
        /\ FindIter("bold", result[1].sections[i].v.content) # <<>>
        /\ result[1].sections[i].v.citations # <<>>
        /\ result[1].sections[i].v.citations[1].position[1] > 0
        /\ result[1].sections[i].v.equations # <<>>
        /\ result[1].sections[i].v.references # <<>>

\* C24: the page of an entry of the table of contents is the position,
\* counted from 1, of its section in the sections the template declares;
\* the pages grow along the table and lie between 1 and the number of
\* declared sections; the word count of an entry is that of its section
\* in the result.
C24_TocPages ==
    pc = "returned" =>
        /\ \A j \in 1..Len(result[1].table_of_contents) :
            /\ InList(result[1].table_of_contents[j].section,
                      templates[template_type].sections)
            /\ result[1].table_of_contents[j].page
                    = IndexOf(result[1].table_of_contents[j].section,
                              templates[template_type].sections)
            /\ result[1].table_of_contents[j].page >= 1
            /\ result[1].table_of_contents[j].page
                    <= Len(templates[template_type].sections)
            /\ result[1].table_of_contents[j].section \in Keys(result[1].sections)
            /\ result[1].table_of_contents[j].word_count
                    = DictGet(result[1].sections,
                              result[1].table_of_contents[j].section,
                              None).word_count
        /\ \A j \in 1..Len(result[1].table_of_contents),
              k \in 1..Len(result[1].table_of_contents) :
                j < k => result[1].table_of_contents[j].page
                            < result[1].table_of_contents[k].page

\* A table of two entries or more with an entry whose page is neither its
\* position in the table nor the position of its section in the document.
C24_Witness ==
    /\ pc = "returned"
    /\ Len(result[1].table_of_contents) >= 2
    /\ \E j \in 1..Len(result[1].table_of_contents) :
        /\ result[1].table_of_contents[j].page # j
        /\ result[1].table_of_contents[j].page
                # IndexOf(result[1].table_of_contents[j].section,
                          KeyList(result[1].sections))
        /\ result[1].table_of_contents[j].word_count > 1

\* C25: when every step of the workflow succeeds, final_output is the
\* output of the last step of the workflow, the validate_output step, with
\* and without the coordinate_assets step, and steps_completed is the
\* number of steps of the workflow.
C25_FinalOutputOfLastStep ==
    (pc = "coordinated" /\ result[1].success) =>
        /\ result[1].workflow[Len(result[1].workflow)].action = "validate_output"
        /\ result[1].results.steps_completed = Len(result[1].workflow)
        /\ result[1].results.final_output
                = result[1].results.step_results[Len(result[1].workflow)].output
        /\ result[1].results.final_output
                = Some(ExecuteWorkflowStep(
                            result[1].workflow[Len(result[1].workflow)],
                            result[1].coordination_id).output)

\* The last count entries of a history are the calls numbered up to last,
\* in the order of the calls.
MostRecent(history, last) ==
    \A i \in 1..Len(history) :
        history[i].coordination_id = last - Len(history) + i

\* C26: the history holds at most 100 entries, the most recent
\* coordinations in the order they were recorded; get_coordination_history
\* returns the last limit of them, and total_coordinations is the number
\* of entries held.
C26_HistoryOfLastHundred ==
    /\ Len(coordination_history) = Min({generated_ids, 100})
    /\ MostRecent(coordination_history, generated_ids)
    /\ pc = "listed" =>
        /\ Len(result[1].history) = Min({history_limit[1], Len(coordination_history)})
        /\ MostRecent(result[1].history, generated_ids)
        /\ result[1].total_coordinations = Len(coordination_history)

\* A config passes validation when it has content, style and format and
\* the format is supported.
PassesValidation(config) ==
    /\ config.content # None
    /\ config.style # None
    /\ config.format # None
    /\ config.format[1] \in {"pdf", "docx", "html", "latex", "markdown"}

\* C27: coordinate_export with a config that fails validation returns
\* success false with the validation errors and neither a workflow nor
\* results, and leaves the history as it is; with a config that passes
\* validation, whatever its style, it returns and appends one entry to the
\* history, with the coordination_id and the success flag of the result.
C27_RejectedOrRecorded ==
    [][(pc = "idle" /\ export_config' # None) =>
        IF PassesValidation(export_config'[1])
        THEN /\ pc' = "coordinated"
             /\ coordination_history'
                    = Append(coordination_history,
                             coordination_history'[Len(coordination_history')])
             /\ coordination_history'[Len(coordination_history')].coordination_id
                    = result'[1].coordination_id
             /\ coordination_history'[Len(coordination_history')].success
                    = result'[1].success
        ELSE /\ pc' = "coordinated"
             /\ ~result'[1].success
             /\ result'[1].errors # <<>>
             /\ result'[1].errors
                    = ValidateExportConfig(export_config'[1]).errors
             /\ DOMAIN result'[1] = {"success", "coordination_id", "errors"}
             /\ coordination_history' = coordination_history]_vars

\* The settings of a configuration: its entries but the metadata.
Settings(config) == SelectSeq(config, LAMBDA entry : entry.k # "metadata")

\* C28: once update_style_config(name, cfg) has returned success,
\* get_style_config(name) returns the settings of cfg with the source
\* custom, for the name of a default style as for any other, and a call
\* that is no update, creation or deletion of a name leaves what
\* get_style_config returns for it as it is.
C28_UpdateThenGet ==
    [][/\ (pc' = "updated" /\ result'[1].success) =>
            /\ GetStyleConfig(style_call'[1].style_name, styles_directory') # None
            /\ Settings(GetStyleConfig(style_call'[1].style_name,
                                       styles_directory')[1])
                    = Settings(style_call'[1].config_data)
            /\ DictGet(GetStyleConfig(style_call'[1].style_name,
                                      styles_directory')[1], "metadata", None)
                    = StyleMetadata("custom", style_call'[1].style_name)
       /\ \A name \in StyleNames :
            (pc' \in {"updated", "created", "deleted"}
                => style_call'[1].style_name # name)
                => GetStyleConfig(name, styles_directory')
                        = GetStyleConfig(name, styles_directory)]_vars

====
